---- MODULE Spec2Model ----
(***************************************************************************)
(* The BrowseAI webhook ingestion pipeline of webhook-middleware:          *)
(* normalisation of captured items (utils/browseai.utils.ts), the          *)
(* OleMiss enrichment (utils/olemiss.ts), the document merge and the       *)
(* orchestrator with its Firestore batch (services/browseAI).              *)
(***************************************************************************)
EXTENDS Integers, Sequences, FiniteSets, TLC

(***************************************************************************)
(* JavaScript values.  A value is a tagged record; an object is a function *)
(* from its own keys to values, an absent key reads as Undefined.          *)
(* Thrown marks an exception leaving the function that is evaluated.       *)
(***************************************************************************)
Null == [t |-> "null"]
Undefined == [t |-> "undefined"]
Thrown == [t |-> "throw"]
Str(s) == [t |-> "str", s |-> s]
Arr(a) == [t |-> "arr", a |-> a]
Obj(o) == [t |-> "obj", o |-> o]
\* an admin.firestore.Timestamp instance made from an ISO date-time string
Ts(iso) == [t |-> "ts", iso |-> iso]

EmptyObj == [k \in {} |-> Null]

Get(o, k) == IF k \in DOMAIN o THEN o[k] ELSE Undefined

\* property read item[k] on any value (strings, null guarded by the callers)
Field(v, k) == IF v.t = "obj" THEN Get(v.o, k) ELSE Undefined

\* JavaScript truthiness
Truthy(v) ==
    /\ v.t \notin {"null", "undefined", "throw"}
    /\ (v.t = "str" => v.s # "")

\* typeof v === 'object' (null, arrays, objects and class instances)
TypeofObject(v) == v.t \in {"null", "arr", "obj", "ts"}

IsArray(v) == v.t = "arr"

\* obj2 laid over obj1: the keys of obj2 win
Overlay(o1, o2) ==
    [k \in (DOMAIN o1) \cup (DOMAIN o2) |-> IF k \in DOMAIN o2 THEN o2[k] ELSE o1[k]]

Restrict(o, K) == [k \in (DOMAIN o) \cap K |-> o[k]]

With(o, k, v) == Overlay(o, [x \in {k} |-> v])

RECURSIVE JoinStr(_, _)
JoinStr(seq, sep) ==
    IF Len(seq) = 0 THEN ""
    ELSE IF Len(seq) = 1 THEN seq[1]
    ELSE seq[1] \o sep \o JoinStr(Tail(seq), sep)

\* String(v) / template-literal conversion `${v}`
RECURSIVE ToStr(_)
ToStr(v) ==
    CASE v.t = "str" -> v.s
      [] v.t = "null" -> "null"
      [] v.t = "undefined" -> "undefined"
      [] v.t = "arr" ->
            JoinStr([i \in 1..Len(v.a) |->
                        IF v.a[i].t \in {"null", "undefined"} THEN "" ELSE ToStr(v.a[i])], ",")
      [] OTHER -> "[object Object]"

\* the elements of s at the positions in K, in order
RECURSIVE PickFrom(_, _, _)
PickFrom(s, K, i) ==
    IF i > Len(s) THEN <<>>
    ELSE IF i \in K THEN <<s[i]>> \o PickFrom(s, K, i + 1)
    ELSE PickFrom(s, K, i + 1)

Pick(s, K) == PickFrom(s, K, 1)

IsPrefix(s, u) ==
    /\ Len(s) <= Len(u)
    /\ \A i \in 1..Len(s) : s[i] = u[i]

(***************************************************************************)
(* Strings the model cannot take apart are looked up: what a regular       *)
(* expression or String.includes yields on each string of the alphabet.    *)
(***************************************************************************)
UrlOleMiss == "https://www.olemisssports.com/calendar"
UrlEspn == "https://www.espn.com/events"
\* another host whose URL text contains the recognized host name
UrlEspnRef == "https://www.espn.com/?from=olemisssports.com"
UrlLocal == "http://localhost/feed"
UrlBad == "not a url"
UrlDeep == "https://m.scores.espn.com/live"

OleMissDomain == "olemisssports.com"

\* s.includes('olemisssports.com')
IncludesOleMiss(s) == s \in {UrlOleMiss, UrlEspnRef, OleMissDomain}

\* new URL(url).hostname.split('.'); <<>> when the constructor throws
HostParts(url) ==
    CASE url = UrlOleMiss -> <<"www", "olemisssports", "com">>
      [] url = UrlEspn -> <<"www", "espn", "com">>
      [] url = UrlEspnRef -> <<"www", "espn", "com">>
      [] url = UrlLocal -> <<"localhost">>
      [] url = UrlDeep -> <<"m", "scores", "espn", "com">>
      [] OTHER -> <<>>

\* the whole host name in place of its last two labels
extractWholeHost(url) ==
    IF url # "" /\ url # "unknown"
    THEN LET parts == HostParts(url) IN
         IF Len(parts) = 0 THEN "unknown" ELSE JoinStr(parts, ".")
    ELSE "unknown"

extractDomainIdentifier(url) ==
    IF url # "" /\ url # "unknown"
    THEN LET parts == HostParts(url) IN
         IF Len(parts) = 0 THEN "unknown"
         ELSE IF Len(parts) >= 2
              THEN JoinStr(SubSeq(parts, Len(parts) - 1, Len(parts)), ".")
              ELSE JoinStr(parts, ".")
    ELSE "unknown"

\* key.toLowerCase() === 'position'
LowerIsPosition(k) == k \in {"position", "Position", "POSITION"}

\* key.toLowerCase().replace(/\s+/g, '-')
Slug(key) ==
    CASE key = "OleSports" -> "olesports"
      [] key = "Events" -> "events"
      [] key = "Top Stories" -> "top-stories"
      [] key = "ImageUrl" -> "imageurl"
      [] key = "Sports" -> "sports"
      [] OTHER -> key

\* /^\d{4}-\d{2}-\d{2}T\d{2}:\d{2}:\d{2}/.test(s) with a valid date
IsIsoDateTime(s) == s \in {"2025-05-18T18:30:00Z"}

\* /^\d{4}-\d{2}-\d{2}$/.test(s)
IsYMD(s) == s \in {"2025-05-24", "2025-05-18", "2026-05-18", "2026-06-19", "2026-06-20",
                   "2023-01-01", "2023-01-03", "2026-01-01", "2026-06-11", "2026-06-13",
                   "2026-12-30", "2026-01-02"}

PadStart2(d) == IF Len(d) = 1 THEN "0" \o d ELSE d

(***************************************************************************)
(* utils/olemiss.ts.  DetailSrc documents are named by the text they       *)
(* stand for; each table row is what the regular expression of the same    *)
(* name matches in that document.                                          *)
(*   HtmlPlain   <div class="card">no game card</div>                      *)
(*   HtmlBare    <div class="s-game-card-standard__header"></div>          *)
(*   HtmlSimple  <div class="s-game-card-standard__header"><p data-test-id=*)
(*     "s-game-card-standard__header-game-date">May 18 <span>(Sun)</span>  *)
(*     </p></div>                                                          *)
(*   HtmlRange   the same header with the paragraph                        *)
(*     Jun 19 <span>(Thu)</span><span>-</span> Jun 20 <span>(Fri)</span>   *)
(*   HtmlTimed   HtmlSimple followed by <span aria-label="Event Time">    *)
(*     <svg></svg> 6:00 PM</span>                                          *)
(*   HtmlTbd     the header with the paragraph TBD                         *)
(*   HtmlScored  HtmlBare with <span data-test-id=                         *)
(*     "s-game-card-standard__header-game-team-score">5</span>             *)
(*   HtmlGolf    HtmlBare with <span title="T3"                            *)
(*     class="s-game-card__postscore-info">3rd of 12</span>                *)
(***************************************************************************)
HtmlPlain == "html:plain"
HtmlBare == "html:s-game-card-standard__header"
HtmlSimple == "html:s-game-card-standard__header;May 18 (Sun)"
HtmlRange == "html:s-game-card-standard__header;Jun 19 (Thu) - Jun 20 (Fri)"
HtmlTimed == "html:s-game-card-standard__header;May 18 (Sun);Event Time 6:00 PM"
HtmlTbd == "html:s-game-card-standard__header;TBD"
HtmlScored == "html:s-game-card-standard__header;team-score 5"
HtmlGolf == "html:s-game-card-standard__header;postscore-info T3"

\* s.includes('s-game-card-standard__header')
IncludesMarker(s) == s \in {HtmlBare, HtmlSimple, HtmlRange, HtmlTimed, HtmlTbd, HtmlScored, HtmlGolf}

\* new Date().getFullYear()
CurrentYear == "2026"

getMonthNumber(monthName) ==
    CASE monthName \in {"Jan", "JAN", "jan"} -> "01"
      [] monthName \in {"May", "MAY", "may"} -> "05"
      [] monthName \in {"Jun", "JUN", "jun"} -> "06"
      [] monthName \in {"Aug", "AUG", "aug"} -> "08"
      [] monthName \in {"Dec", "DEC", "dec"} -> "12"
      [] OTHER -> "01"

formatDate(month, day, year) == year \o "-" \o getMonthNumber(month) \o "-" \o PadStart2(day)

\* the month/day range pattern of parseEventDate: <<m1, d1, m2, d2>>
RangeMatch(s) ==
    CASE s = "Jun 19 (Thu) - Jun 20 (Fri)" -> <<"Jun", "19", "Jun", "20">>
      [] s = "Jun 11(Wed)-Jun 13(Fri)" -> <<"Jun", "11", "Jun", "13">>
      [] s = "Dec 30(Tue)-Jan 2(Fri)" -> <<"Dec", "30", "Jan", "2">>
      [] OTHER -> <<>>

\* the pattern with a year: <<month, day, endDay or "", year>>
YearMatch(s) ==
    CASE s = "Jan 1-3, 2023" -> <<"Jan", "1", "3", "2023">>
      [] s = "Jan 1, 2023" -> <<"Jan", "1", "", "2023">>
      [] OTHER -> <<>>

\* the month/day pattern with an optional parenthesised day of week
HtmlFormatMatch(s) ==
    CASE s = "May 18 (Sun)" -> <<"May", "18">>
      [] s = "May 18" -> <<"May", "18">>
      [] s = "May 18 (Sun) / 6:00 PM" -> <<"May", "18">>
      [] s = "May 20" -> <<"May", "20">>
      [] s = "Jan 1" -> <<"Jan", "1">>
      [] OTHER -> <<>>

\* Null, or [startDate, endDate]
parseEventDate(eventDateStr) ==
    IF eventDateStr = "" THEN Null
    ELSE LET r == RangeMatch(eventDateStr)
             y == YearMatch(eventDateStr)
             h == HtmlFormatMatch(eventDateStr)
         IN  IF r # <<>>
             THEN [t |-> "dates", startDate |-> formatDate(r[1], r[2], CurrentYear),
                                  endDate |-> formatDate(r[3], r[4], CurrentYear)]
             ELSE IF y # <<>>
             THEN LET startDate == formatDate(y[1], y[2], y[4]) IN
                  IF y[3] # ""
                  THEN [t |-> "dates", startDate |-> startDate,
                                       endDate |-> formatDate(y[1], y[3], y[4])]
                  ELSE [t |-> "dates", startDate |-> startDate, endDate |-> startDate]
             ELSE IF h # <<>>
             THEN [t |-> "dates", startDate |-> formatDate(h[1], h[2], CurrentYear),
                                  endDate |-> formatDate(h[1], h[2], CurrentYear)]
             ELSE Null

\* the GameDetails record (an object of optional fields) of a document
extractGameDetails(htmlContent, sportType) ==
    IF htmlContent = "" THEN EmptyObj
    ELSE CASE htmlContent = HtmlSimple -> [k \in {"DayOfWeek"} |-> Str("Sun")]
           [] htmlContent = HtmlRange -> [k \in {"DayOfWeek"} |-> Str("Thu")]
           [] htmlContent = HtmlTimed -> ("DayOfWeek" :> Str("Sun")) @@ ("Time" :> Str("6:00 PM"))
           [] OTHER -> EmptyObj

\* the rawDate of extractHeaderGameDate
extractHeaderGameDate(detailSrc) ==
    CASE detailSrc = HtmlSimple -> Str("May 18 (Sun)")
      [] detailSrc = HtmlRange -> Str("Jun 19 (Thu) - Jun 20 (Fri)")
      [] detailSrc = HtmlTimed -> Str("May 18 (Sun) / 6:00 PM")
      [] detailSrc = HtmlTbd -> Str("TBD")
      [] OTHER -> Null

\* dateSource.includes(' - ') && (dateSource.includes('(') || dateSource.includes(')'))
IsParenRange(s) == s \in {"Jun 19 (Thu) - Jun 20 (Fri)"}

\* haystack.includes(needle) for an EventDate and a Time
IncludesText(haystack, needle) == haystack = needle

LogoCrop == "https://images.sidearmdev.com/crop?url=logo.png&width=80&height=80"
LogoCrop200 == "https://images.sidearmdev.com/crop?url=logo.png&width=200&height=200"
LogoPlain == "https://cdn.example.com/logo.png"

transformOleMissLogoUrl(logoUrl) ==
    IF logoUrl \in {LogoCrop, LogoCrop200} THEN LogoCrop200 ELSE logoUrl

\* label with Date, and EventEndDate when the range ends on another day
WithParsedDates(parsedDate, label) ==
    IF parsedDate.endDate # parsedDate.startDate
    THEN With(With(label, "Date", Str(parsedDate.startDate)), "EventEndDate", Str(parsedDate.endDate))
    ELSE With(label, "Date", Str(parsedDate.startDate))

\* if (parsedDate) { ... } else <otherwise>
WithDatesOr(parsedDate, label, otherwise) ==
    IF parsedDate # Null THEN WithParsedDates(parsedDate, label) ELSE otherwise

\* a Date left empty when the text cannot be parsed
updateDateFieldsBlanking(dateString, label) ==
    WithDatesOr(parseEventDate(dateString), label, With(label, "Date", Str("")))

updateDateFields(dateString, label) ==
    WithDatesOr(parseEventDate(dateString), label, With(label, "Date", Str(dateString)))

\* if (gameDetails.EventDate && !label.EventDate) label.EventDate = gameDetails.EventDate
WithDetailsEventDate(gameDetails, label) ==
    IF Truthy(Get(gameDetails, "EventDate")) /\ ~Truthy(Get(label, "EventDate"))
    THEN With(label, "EventDate", gameDetails["EventDate"])
    ELSE label

\* the Time of the details appended to EventDate unless it is in there
WithTimeInEventDate(gameDetails, label) ==
    IF /\ Truthy(Get(label, "EventDate"))
       /\ Truthy(Get(gameDetails, "Time"))
       /\ ~IncludesText(ToStr(label["EventDate"]), ToStr(gameDetails["Time"]))
    THEN With(label, "EventDate",
              Str(ToStr(label["EventDate"]) \o " / " \o ToStr(gameDetails["Time"])))
    ELSE label

\* the date range branch: EventDate is the raw range, Date and EventEndDate its parse
WithRange(dateSource, label) ==
    WithDatesOr(parseEventDate(dateSource.s), With(label, "EventDate", dateSource),
                With(label, "EventDate", dateSource))

\* label.EventDate.includes(...) is called on an EventDate that is neither
\* text nor array: a TypeError
IncludesThrows(gameDetails, label) ==
    /\ Truthy(Get(label, "EventDate"))
    /\ Truthy(Get(gameDetails, "Time"))
    /\ label["EventDate"].t \notin {"str", "arr"}

\* the last statement of processDateInformation: the label it leaves, and
\* whether it raised
TimeStep(gameDetails, label) ==
    IF IncludesThrows(gameDetails, label)
    THEN [raised |-> TRUE, label |-> label]
    ELSE [raised |-> FALSE, label |-> WithTimeInEventDate(gameDetails, label)]

processDateInformation(dateSource, gameDetails, label) ==
    IF ~Truthy(dateSource) THEN [raised |-> FALSE, label |-> label]
    ELSE TimeStep(gameDetails,
            WithDetailsEventDate(gameDetails,
                IF IsParenRange(dateSource.s)
                THEN WithRange(dateSource, label)
                ELSE updateDateFields(dateSource.s, label)))

\* if (gameDetails.<field>) newLabel.<field> = gameDetails.<field>
WithDetail(gameDetails, field, label) ==
    IF Truthy(Get(gameDetails, field)) THEN With(label, field, gameDetails[field]) ELSE label

\* rawDate || gameDetails.Date || null
DateSource(rawDate, gameDetails) ==
    IF Truthy(rawDate) THEN rawDate
    ELSE IF Truthy(Get(gameDetails, "Date")) THEN gameDetails["Date"]
    ELSE Null

\* if (newLabel.Logo && typeof newLabel.Logo === 'string') newLabel.Logo = transform(...)
WithLogo(label) ==
    IF Truthy(Get(label, "Logo")) /\ label["Logo"].t = "str"
    THEN With(label, "Logo", Str(transformOleMissLogoUrl(label["Logo"].s)))
    ELSE label

\* the part of processOleMissItem behind its guard on DetailSrc
\* the try block's end: the catch logs and leaves the label as it is, the
\* Logo step runs when nothing was raised
Caught(step) == IF step.raised THEN step.label ELSE WithLogo(step.label)

EnrichFrom(detailSrc, gameDetails, newLabel) ==
    Caught(processDateInformation(DateSource(extractHeaderGameDate(detailSrc), gameDetails),
                                  gameDetails,
                                  WithDetail(gameDetails, "Time",
                                             WithDetail(gameDetails, "Score", newLabel))))

\* the first capture group of the score patterns, "" without a match
ScoreMatch(detailSrc) == IF detailSrc = HtmlScored THEN "5" ELSE ""
GolfScoreMatch(detailSrc) == IF detailSrc = HtmlGolf THEN "T3" ELSE ""

\* Null, or the score text
extractScore(detailSrc, sportType) ==
    IF detailSrc = "" THEN Null
    ELSE IF sportType \in {"WGOLF", "MGOLF"}
         THEN IF GolfScoreMatch(detailSrc) # "" THEN Str(GolfScoreMatch(detailSrc)) ELSE Null
         ELSE IF ScoreMatch(detailSrc) # "" THEN Str(ScoreMatch(detailSrc)) ELSE Null

\* sportType handed to extractGameDetails
SportType(sport) == IF Truthy(sport) THEN ToStr(sport) ELSE ""

\* an enrichment that does not look for the marker
processOleMissItemWithoutMarker(processedItem, newLabel, docName, originUrl) ==
    IF \/ ~Truthy(Field(processedItem, "DetailSrc"))
       \/ Field(processedItem, "DetailSrc").t # "str"
    THEN newLabel
    ELSE EnrichFrom(Field(processedItem, "DetailSrc").s,
                    extractGameDetails(Field(processedItem, "DetailSrc").s,
                                       SportType(Field(processedItem, "Sport"))),
                    newLabel)

\* the newLabel object after the call (the function updates it in place)
processOleMissItem(processedItem, newLabel, docName, originUrl) ==
    IF \/ ~Truthy(Field(processedItem, "DetailSrc"))
       \/ Field(processedItem, "DetailSrc").t # "str"
       \/ ~IncludesMarker(Field(processedItem, "DetailSrc").s)
    THEN newLabel
    ELSE EnrichFrom(Field(processedItem, "DetailSrc").s,
                    extractGameDetails(Field(processedItem, "DetailSrc").s,
                                       SportType(Field(processedItem, "Sport"))),
                    newLabel)

(***************************************************************************)
(* utils/browseai.utils.ts                                                 *)
(***************************************************************************)
\* the month and day the pattern of parseDateString finds: <<MONTH, day>>
DateStringMatch(s) ==
    CASE s = "MAY SAT 24" -> <<"MAY", "24">>
      [] s = "May 18" -> <<"MAY", "18">>
      [] s = "May 18 (Sun)" -> <<"MAY", "18">>
      [] OTHER -> <<>>

parseDateString(dateString) ==
    IF dateString = "" THEN ""
    ELSE LET match == DateStringMatch(dateString) IN
         IF match = <<>> THEN dateString
         ELSE "2025" \o "-" \o getMonthNumber(match[1]) \o "-" \o PadStart2(match[2])


\* Math.floor(new Date(iso).getTime() / 1000)
EpochSeconds(iso) == IF iso = "2025-05-18T18:30:00Z" THEN "1747593000" ELSE iso

\* Object.entries of a Timestamp instance: its two own fields
TimestampEntries(ts) ==
    [k \in {"_seconds", "_nanoseconds"} |->
        IF k = "_seconds" THEN Str(EpochSeconds(ts.iso)) ELSE Str("0")]

\* Object.entries(v) of an object or a class instance, as a function
Entries(v) ==
    CASE v.t = "obj" -> v.o
      [] v.t = "ts" -> TimestampEntries(v)
      [] OTHER -> EmptyObj

AnyThrown(seq) == \E i \in 1..Len(seq) : seq[i] = Thrown

\* utils/firestore.ts
RECURSIVE convertToFirestoreFormat(_)
convertToFirestoreFormat(data) ==
    CASE data.t \in {"null", "undefined"} -> Null
      [] data.t = "arr" -> Arr([i \in 1..Len(data.a) |-> convertToFirestoreFormat(data.a[i])])
      [] data.t = "obj" ->
            Obj([k \in DOMAIN data.o |->
                    IF data.o[k].t = "str" /\ IsIsoDateTime(data.o[k].s)
                    THEN Ts(data.o[k].s)
                    ELSE convertToFirestoreFormat(data.o[k])])
      [] OTHER -> data

\* JSON.parse(JSON.stringify(v))
RECURSIVE JsonCopy(_)
JsonCopy(v) ==
    CASE v.t = "arr" ->
            Arr([i \in 1..Len(v.a) |->
                    IF v.a[i].t = "undefined" THEN Null ELSE JsonCopy(v.a[i])])
      [] v.t \in {"obj", "ts"} ->
            LET e == Entries(v) IN
            Obj([k \in {x \in DOMAIN e : e[x].t # "undefined"} |-> JsonCopy(e[k])])
      [] OTHER -> v

\* the order in which Object.keys lists the fields of an item
FieldOrder ==
    <<"uid", "Title", "originUrl", "Date", "ImageUrl", "Location", "Logo", "Time",
      "Description", "Score", "EventDate", "EventEndDate", "Sports", "DetailSrc">>

BaseAllowedFields == {"Date", "ImageUrl", "Location", "Logo", "Time", "Description", "Title", "uid"}

OleMissAllowedFields == {"Score", "EventDate", "EventEndDate", "Sports", "DetailSrc"}

\* docName === 'olemisssports.com' || originUrl.includes('olemisssports.com')
IsOleMissSource(docName, originUrl) == docName = OleMissDomain \/ IncludesOleMiss(originUrl)

AllowedFields(docName, originUrl) ==
    IF IsOleMissSource(docName, originUrl)
    THEN BaseAllowedFields \cup OleMissAllowedFields
    ELSE BaseAllowedFields

\* a key made of the uid alone
createUniqueKeyFromUid(item) == ToStr(Field(item, "uid"))

createUniqueKeyForItem(item) ==
    IF ~Truthy(item) \/ ~TypeofObject(item) THEN ToStr(item)
    ELSE LET originUrl == Field(item, "originUrl")
             isOleMiss == Truthy(originUrl) /\ originUrl.t = "str" /\ IncludesOleMiss(originUrl.s)
             preferred == IF isOleMiss THEN <<"Title", "EventDate", "Location", "Sports">>
                          ELSE <<"Title", "Location", "Date", "Time">>
             found == Pick(preferred, {i \in 1..Len(preferred) : Truthy(Field(item, preferred[i]))})
             others == Pick(FieldOrder,
                            {i \in 1..Len(FieldOrder) :
                                LET v == Field(item, FieldOrder[i]) IN
                                /\ ~TypeofObject(v)
                                /\ FieldOrder[i] # "uid"
                                /\ v.t # "undefined"})
             keyFields == IF Len(found) = 0 THEN others ELSE found
         IN  JoinStr([i \in 1..Len(keyFields) |->
                        keyFields[i] \o ":" \o ToStr(Field(item, keyFields[i]))], "|")

\* item.Title === null || item.Title === undefined
TitleMissing(item) == Field(item, "Title").t \in {"null", "undefined"}

\* a deduplication in which the last occurrence of a key wins
deduplicateItemsKeepingLast(items) ==
    IF Len(items) <= 1 THEN items
    ELSE LET titled == {i \in 1..Len(items) : ~TitleMissing(items[i])}
             last == {i \in titled :
                        \A j \in titled :
                           j > i => createUniqueKeyForItem(items[j]) # createUniqueKeyForItem(items[i])}
         IN  Pick(items, last)

deduplicateItems(items) ==
    IF Len(items) <= 1 THEN items
    ELSE LET titled == {i \in 1..Len(items) : ~TitleMissing(items[i])}
             first == {i \in titled :
                         \A j \in titled :
                            j < i => createUniqueKeyForItem(items[j]) # createUniqueKeyForItem(items[i])}
         IN  Pick(items, first)

deduplicateAgainstExisting(newItems, existingItems) ==
    IF Len(newItems) = 0 \/ Len(existingItems) = 0 THEN newItems
    ELSE LET existingKeys == {createUniqueKeyForItem(existingItems[j]) : j \in 1..Len(existingItems)}
         IN  Pick(newItems, {i \in 1..Len(newItems) :
                                createUniqueKeyForItem(newItems[i]) \notin existingKeys})

areArraysEquivalent(array1, array2) ==
    /\ Len(array1) = Len(array2)
    /\ LET array1Keys == {createUniqueKeyForItem(array1[i]) : i \in 1..Len(array1)}
       IN  \A j \in 1..Len(array2) : createUniqueKeyForItem(array2[j]) \in array1Keys

RECURSIVE cleanDataFields(_, _, _, _, _)
RECURSIVE processObjectFields(_, _, _, _, _)
RECURSIVE processArrayField(_, _, _, _, _, _)
RECURSIVE processArrayItem(_, _, _, _, _, _, _)

\* a uid that leaves the index out
MakeUidWithoutIndex(key, now, index) == Slug(key) \o "-" \o ToString(now)

\* `${key.toLowerCase().replace(/\s+/g, '-')}-${Date.now()}-${index}`
MakeUid(key, now, index) == Slug(key) \o "-" \o ToString(now) \o "-" \o ToString(index)

\* the array, unless the processing of an element threw
ArrOrThrown(seq) == IF AnyThrown(seq) THEN Thrown ELSE Arr(seq)

\* the object, unless the processing of a field threw
ObjOrThrown(o) == IF \E k \in DOMAIN o : o[k] = Thrown THEN Thrown ELSE Obj(o)

\* the keys processObjectFields does not skip
KeptKeys(data) == {k \in DOMAIN Entries(data) : ~(LowerIsPosition(k) \/ k = "_STATUS")}

\* finalItems.length === 0 ? existingArray : [...existingArray, ...finalItems]
AppendFinal(finalItems, existingArray) ==
    IF Len(finalItems) = 0 THEN existingArray ELSE Arr(existingArray.a \o finalItems)

\* processArrayField from its deduplicated items on
AppendDeduplicated(deduplicated, existingArray) ==
    IF Len(deduplicated) = 0 THEN Arr(<<>>)
    ELSE IF IsArray(existingArray)
    THEN IF areArraysEquivalent(deduplicated, existingArray.a)
         THEN existingArray
         ELSE AppendFinal(deduplicateAgainstExisting(deduplicated, existingArray.a), existingArray)
    ELSE Arr(deduplicated)

\* processArrayField from its processed items on
AppendProcessed(processedItems, existingArray) ==
    IF AnyThrown(processedItems) THEN Thrown
    ELSE AppendDeduplicated(deduplicateItems(processedItems), existingArray)

\* const newLabel = { uid, Title: key, originUrl }
BaseLabel(key, index, originUrl, now) ==
    [k \in {"uid", "Title", "originUrl"} |->
        CASE k = "uid" -> Str(MakeUid(key, now, index))
          [] k = "Title" -> Str(key)
          [] OTHER -> Str(originUrl)]

\* Object.keys(processedItem), as far as a key can be an allowed field
OwnFields(processedItem) == IF processedItem.t = "obj" THEN processedItem.o ELSE EmptyObj

\* the allowed fields of processedItem copied onto the label
CopyAllowed(processedItem, label, docName, originUrl) ==
    Overlay(label, Restrict(OwnFields(processedItem), AllowedFields(docName, originUrl)))

\* the site-specific step taken for every source
EnrichAnySource(processedItem, label, docName, originUrl) ==
    processOleMissItem(processedItem, label, docName, originUrl)

\* the site-specific step of processArrayItem
Enrich(processedItem, label, docName, originUrl) ==
    IF IsOleMissSource(docName, originUrl)
    THEN processOleMissItem(processedItem, label, docName, originUrl)
    ELSE label

\* a Date that is not YYYY-MM-DD is parsed
WithParsedDate(label) ==
    IF Truthy(Get(label, "Date")) /\ label["Date"].t = "str" /\ ~IsYMD(label["Date"].s)
    THEN With(label, "Date", Str(parseDateString(label["Date"].s)))
    ELSE label

\* if (!('ImageUrl' in newLabel) && !('ImageUrl' in item)) newLabel['ImageUrl'] = ''
WithImageUrl(item, label) ==
    IF "ImageUrl" \in DOMAIN label THEN Obj(label)
    \* the in operator throws on a primitive right-hand side
    ELSE IF ~TypeofObject(item) THEN Thrown
    ELSE IF item.t = "obj" /\ "ImageUrl" \in DOMAIN item.o THEN Obj(label)
    ELSE Obj(With(label, "ImageUrl", Str("")))

\* processArrayItem from its cleaned item on
NewLabel(item, processedItem, key, index, originUrl, docName, now) ==
    IF processedItem = Thrown THEN Thrown
    \* Object.keys(null) throws
    ELSE IF processedItem.t \in {"null", "undefined"} THEN Thrown
    ELSE WithImageUrl(item,
            WithParsedDate(
                Enrich(processedItem,
                       CopyAllowed(processedItem, BaseLabel(key, index, originUrl, now),
                                   docName, originUrl),
                       docName, originUrl)))

\* now is the value Date.now() returns during the call
cleanDataFields(data, existingData, originUrl, docName, now) ==
    IF ~Truthy(data) \/ ~TypeofObject(data) THEN data
    ELSE IF IsArray(data)
    THEN ArrOrThrown([i \in 1..Len(data.a) |->
                        cleanDataFields(data.a[i], existingData, originUrl, docName, now)])
    ELSE processObjectFields(data, existingData, originUrl, docName, now)

\* an object cleaner that keeps every key
processObjectFieldsKeepingAll(data, existingData, originUrl, docName, now) ==
    ObjOrThrown([k \in DOMAIN Entries(data) |->
                    IF IsArray(Entries(data)[k])
                    THEN processArrayField(k, Entries(data)[k].a, existingData, originUrl, docName, now)
                    ELSE IF TypeofObject(Entries(data)[k])
                    THEN cleanDataFields(Entries(data)[k], existingData, originUrl, docName, now)
                    ELSE Entries(data)[k]])

processObjectFields(data, existingData, originUrl, docName, now) ==
    ObjOrThrown([k \in KeptKeys(data) |->
                    IF IsArray(Entries(data)[k])
                    THEN processArrayField(k, Entries(data)[k].a, existingData, originUrl, docName, now)
                    ELSE IF TypeofObject(Entries(data)[k])
                    THEN cleanDataFields(Entries(data)[k], existingData, originUrl, docName, now)
                    ELSE Entries(data)[k]])

\* the array this function returns, as an Arr value, or Thrown
processArrayField(key, value, existingData, originUrl, docName, now) ==
    AppendProcessed([i \in 1..Len(value) |->
                        processArrayItem(value[i], key, i - 1, existingData, originUrl, docName, now)],
                    Field(Field(existingData, "data"), key))

processArrayItem(item, key, index, existingData, originUrl, docName, now) ==
    NewLabel(item, cleanDataFields(item, existingData, originUrl, docName, now),
             key, index, originUrl, docName, now)

\* mergedData.data, an empty object when the document has none
DataOf(mergedData) ==
    IF Truthy(Get(mergedData, "data")) THEN mergedData["data"].o ELSE EmptyObj

\* the loop of appendNewData over the entries of the new data
MergeEntries(data, new) ==
    Overlay(data, [k \in DOMAIN new |->
                     IF Truthy(Get(data, k)) /\ IsArray(data[k]) /\ IsArray(new[k])
                     THEN Arr(data[k].a \o new[k].a)
                     ELSE new[k]])

\* mergedData after the loop
Merged(mergedData, new) == Obj(With(mergedData, "data", Obj(MergeEntries(DataOf(mergedData), new))))

\* the loop run as plain assignment
MergedReplacing(mergedData, new) == Obj(With(mergedData, "data", Obj(Overlay(DataOf(mergedData), new))))

\* the loop run on an empty data object
MergedClobbering(mergedData, new) == Obj(With(mergedData, "data", Obj(MergeEntries(EmptyObj, new))))

\* a merge in which the new value always replaces the existing one
appendNewDataReplacing(docSnapshot, processedData, originUrl) ==
    IF ~Truthy(docSnapshot) THEN Obj([k \in {"data"} |-> processedData])
    ELSE MergedReplacing(JsonCopy(docSnapshot).o, Entries(processedData))

\* a merge that keeps only the keys of the new capture
appendNewDataClobbering(docSnapshot, processedData, originUrl) ==
    IF ~Truthy(docSnapshot) THEN Obj([k \in {"data"} |-> processedData])
    ELSE MergedClobbering(JsonCopy(docSnapshot).o, Entries(processedData))

\* docSnapshot is the stored document, Undefined when there is none
appendNewData(docSnapshot, processedData, originUrl) ==
    IF ~Truthy(docSnapshot) THEN Obj([k \in {"data"} |-> processedData])
    ELSE Merged(JsonCopy(docSnapshot).o, Entries(processedData))


(***************************************************************************)
(* services/browseAI/browseAI.service.ts: one webhook delivery is an       *)
(* asynchronous task; it is suspended at every await (the document reads   *)
(* and the batch commit).                                                  *)
(***************************************************************************)
MaxDeliveries == 2
MaxTime == 2
NumProcs == 2

Procs == 1..NumProcs

Collections == {"captured_texts", "captured_screenshots", "captured_lists"}

Kinds == <<"capturedTexts", "capturedScreenshots", "capturedLists">>

CollectionOf(kind) ==
    CASE kind = "capturedTexts" -> "captured_texts"
      [] kind = "capturedScreenshots" -> "captured_screenshots"
      [] OTHER -> "captured_lists"

OriginUrls == {UrlOleMiss, UrlEspn}

DocNames == {extractDomainIdentifier(u) : u \in OriginUrls \cup {"unknown"}}

ListNames == {"OleSports", "Events"}

\* raw scraped objects of list captures
RawTucson18 ==
    Obj([k \in {"EventDate", "Location", "Sports"} |->
            CASE k = "EventDate" -> Str("May 18") [] k = "Location" -> Str("Tucson")
              [] OTHER -> Str("SB")])
RawOxford20 ==
    Obj([k \in {"EventDate", "Location", "Sports"} |->
            CASE k = "EventDate" -> Str("May 20") [] k = "Location" -> Str("Oxford")
              [] OTHER -> Str("SB")])
RawNullTitle == Obj([k \in {"Title"} |-> Null])
RawLoose == Str("loose text")

ListCapture(name, items) == Obj([k \in {name} |-> Arr(items)])

\* list captures delivered alone
ListCaptures ==
    {ListCapture("OleSports", items) :
        items \in {<<RawTucson18>>, <<RawOxford20>>, <<RawTucson18, RawOxford20>>,
                   <<RawTucson18, RawTucson18>>, <<RawNullTitle, RawTucson18>>,
                   <<RawNullTitle, RawNullTitle>>, <<RawNullTitle>>, <<RawLoose>>}}
    \cup {ListCapture("Events", <<RawTucson18>>)}

\* list captures delivered together with texts and screenshots
MixedListCaptures == {ListCapture("OleSports", <<RawTucson18>>), ListCapture("OleSports", <<RawLoose>>)}

TextCapture ==
    Obj([k \in {"headline", "Position"} |-> IF k = "headline" THEN Str("Rebels win") ELSE Str("1")])

ScreenshotCapture ==
    Obj([k \in {"page"} |->
            Obj([f \in {"src", "_STATUS"} |->
                    IF f = "src" THEN Str("https://shots.example.com/1.png") ELSE Str("ok")])])

Task(u, texts, shots, lists) ==
    Obj(Overlay(Overlay(Overlay(
        [k \in {"inputParameters"} |-> Obj([x \in {"originUrl"} |-> Str(u)])],
        IF texts THEN [k \in {"capturedTexts"} |-> TextCapture] ELSE EmptyObj),
        IF shots THEN [k \in {"capturedScreenshots"} |-> ScreenshotCapture] ELSE EmptyObj),
        IF lists = Undefined THEN EmptyObj ELSE [k \in {"capturedLists"} |-> lists]))

\* a task whose text and screenshot captures are empty objects
TaskEmptyCaptures ==
    Obj(Overlay(Task(UrlOleMiss, FALSE, FALSE, ListCapture("OleSports", <<RawTucson18>>)).o,
                [k \in {"capturedTexts", "capturedScreenshots"} |-> Obj(EmptyObj)]))

\* a task without input parameters, and one whose input parameters are empty
TaskNoParameters ==
    Obj([k \in {"capturedLists"} |-> ListCapture("OleSports", <<RawTucson18>>)])
TaskEmptyParameters ==
    Obj([k \in {"inputParameters", "capturedTexts"} |->
            IF k = "inputParameters" THEN Obj(EmptyObj) ELSE TextCapture])

\* the task envelopes of the deliveries
Tasks ==
    {TaskEmptyCaptures, TaskNoParameters, TaskEmptyParameters} \cup
    {Task(u, FALSE, FALSE, lists) : u \in OriginUrls, lists \in ListCaptures}
    \cup {Task(UrlOleMiss, texts, shots, lists) :
            texts \in BOOLEAN, shots \in BOOLEAN, lists \in MixedListCaptures \cup {Undefined}}

\* the request bodies; the last one has no task envelope
Payloads == {Obj([k \in {"task"} |-> t]) : t \in Tasks} \cup {Obj(EmptyObj)}

VARIABLES
    store,        \* Firestore: collection -> document id -> document or Undefined
    now,          \* the clock read by Date.now()
    pc,           \* per delivery: "idle", the capture kind whose read is awaited, "commit"
    payload,      \* per delivery: the webhookData argument
    task,         \* the task field of the one BrowseAIService instance
    originUrl,    \* per delivery: local originUrl
    docName,      \* per delivery: local docName
    arg,          \* per delivery: the capture handed to the running store function
    batch,        \* per delivery: the writes staged in its WriteBatch
    result,       \* per delivery: how its last processWebhookData ended
    repeat,       \* per delivery: its task is the one its previous, committed run carried
    deliveries,   \* deliveries started
    discarded,    \* the number of staged writes the last failed delivery left behind
    lastMerge,    \* the read-and-stage step just taken: snapshot, cleaned capture, staged document
    rawKeys,      \* document -> list name -> Dedup Keys of all items delivered and committed
    itemIn,       \* input of the normalizer under SpecItem
    itemOut,      \* its result
    timestamp,    \* per delivery: local timestamp, 0 while no delivery runs
    reads,        \* per delivery: collection -> document reads issued so far
    outcome,      \* per request: what processWebhookData returned or threw
    response,     \* per request: what the router sent back
    cache,        \* the Map of the module's one cacheProvider: key -> [value, expiry]
    fetched,      \* what the last fetchCategoryData call handed to sortCategoryData, or its error
    imageUpdate,  \* what the last updateImageByPath call returned
    middleware    \* the cached route: requests, handler runs, last response, cache.set calls

vars == <<store, now, pc, payload, task, originUrl, docName, arg, batch, result, repeat,
          deliveries, discarded, lastMerge, rawKeys, itemIn, itemOut,
          timestamp, reads, outcome, response,
                   cache, fetched, imageUpdate, middleware>>

NoMerge == [t |-> "nomerge"]

(***************************************************************************)
(* middlewares/cache: InMemoryCache, CacheFactory and cacheMiddleware.     *)
(* The clock `now` counts ticks of TickMillis milliseconds.                *)
(***************************************************************************)
TickMillis == 400000
MaxRequests == 4

\* Date.now()
DateNow(time) == time * TickMillis

\* the default of the ttl option, in seconds
DefaultTtl == 300

\* FirestoreService.CACHE_TTL
CACHE_TTL == 300

MaxFetches == 3

\* no fetchCategoryData call so far
NoFetch == [n |-> 0, key |-> "", source |-> "none", value |-> Undefined]

\* new Map()
EmptyCache == EmptyObj

\* InMemoryCache.get: the value, null for a missing or an expired entry
InMemoryCacheGet(map, key, time) ==
    IF key \notin DOMAIN map THEN Null
    ELSE IF map[key].expiry < DateNow(time) THEN Null
    ELSE map[key].value

\* the Map after InMemoryCache.get, which deletes an expired entry
InMemoryCacheAfterGet(map, key, time) ==
    IF key \in DOMAIN map /\ map[key].expiry < DateNow(time)
    THEN Restrict(map, DOMAIN map \ {key})
    ELSE map

\* the Map after InMemoryCache.set
InMemoryCacheSet(map, key, value, ttlSeconds, time) ==
    With(map, key, [value |-> value, expiry |-> DateNow(time) + ttlSeconds * 1000])

\* CacheFactory.createCache: the Map of the provider it returns, given the
\* Map of the provider the previous call returned
createCache(previous) == EmptyCache

RouteUrls == {"/api/example/data", "/api/example/data?page=2"}

\* `${prefix}${req.originalUrl || req.url}`
CacheKey(url) == "api-cache:" \o url

NoRequests ==
    [requests |-> 0,
     runs |-> [u \in RouteUrls |-> 0],
     served |-> Undefined,
     instance |-> EmptyCache,
     sets |-> [u \in RouteUrls |-> 0]]

NoReads == [c \in Collections |-> 0]

\* throw { status: 400, message: ..., details: ... }
InvalidWebhookData ==
    [t |-> "thrown", status |-> 400, message |-> "Invalid webhook data structure",
     details |-> "The webhook payload is missing required task information"]

\* an Error object thrown by Firestore or by the processing of a capture
ErrorThrown(message) == [t |-> "thrown", status |-> 0, message |-> message]

\* the success envelope; started is the value of the local timestamp
SuccessEnvelope(started) ==
    [t |-> "returned", success |-> TRUE, processedAt |-> ToString(started),
     collections |-> <<"captured_texts", "captured_screenshots", "captured_lists">>]

\* the router's answer: res.json(result), or res.status(500).json({success: false, error})
RouterResponse(out) ==
    IF out.t = "returned"
    THEN [status |-> 200, body |-> out]
    ELSE [status |-> 500,
          body |-> [success |-> FALSE,
                    error |-> IF out.message # "" THEN out.message
                              ELSE "Error processing BrowseAI webhook data"]]

InitPipeline ==
    /\ store = [c \in Collections |-> [d \in DocNames |-> Undefined]]
    /\ now = 1
    /\ pc = [p \in Procs |-> "idle"]
    /\ payload = [p \in Procs |-> Undefined]
    /\ task = Undefined
    /\ originUrl = [p \in Procs |-> "unknown"]
    /\ docName = [p \in Procs |-> "unknown"]
    /\ arg = [p \in Procs |-> Undefined]
    /\ batch = [p \in Procs |-> EmptyObj]
    /\ result = [p \in Procs |-> "none"]
    /\ repeat = [p \in Procs |-> FALSE]
    /\ deliveries = 0
    /\ discarded = 0
    /\ lastMerge = NoMerge
    /\ rawKeys = [d \in DocNames |-> [l \in ListNames |-> {}]]
    /\ timestamp = [p \in Procs |-> 0]
    /\ reads = [p \in Procs |-> NoReads]
    /\ outcome = [p \in Procs |-> Undefined]
    /\ response = [p \in Procs |-> Undefined]
    /\ cache = EmptyCache
    /\ fetched = NoFetch
    /\ imageUpdate = Undefined
    /\ middleware = NoRequests

Init ==
    /\ InitPipeline
    /\ itemIn = Undefined
    /\ itemOut = Undefined

\* a test of the capture kind that leaves out the emptiness check
PresentWhenTruthy(t, kind) == Truthy(Field(t, kind))

\* this.task.<kind> && Object.keys(this.task.<kind>).length > 0
Present(t, kind) == Truthy(Field(t, kind)) /\ DOMAIN Entries(Field(t, kind)) # {}

\* a sequencing that goes back to the capture kind just handled
NextKindAgain(t, i) ==
    IF i > 1 THEN Kinds[i - 1]
    ELSE IF Present(t, Kinds[1]) THEN Kinds[1]
    ELSE "commit"

\* the first capture kind at or after position i that the task carries, else "commit"
RECURSIVE NextKind(_, _)
NextKind(t, i) ==
    IF i > Len(Kinds) THEN "commit"
    ELSE IF Present(t, Kinds[i]) THEN Kinds[i]
    ELSE NextKind(t, i + 1)

KindIndex(kind) == CHOOSE i \in 1..Len(Kinds) : Kinds[i] = kind

\* the first input parameter value, or 'unknown'
OriginOf(t) ==
    LET params == Field(t, "inputParameters")
        e == IF Truthy(params) THEN Entries(params) ELSE EmptyObj
    IN  IF DOMAIN e = {} THEN "unknown"
        ELSE LET firstValue == e[CHOOSE k \in DOMAIN e : TRUE] IN
             IF Truthy(firstValue) THEN ToStr(firstValue) ELSE "unknown"

\* cleanDataFields(convertToFirestoreFormat(capture), existingData, originUrl, docName)
ProcessedData(docSnapshot, capture, origin, doc, clock) ==
    cleanDataFields(convertToFirestoreFormat(capture),
                    IF docSnapshot # Undefined THEN docSnapshot ELSE Null, origin, doc, clock)

\* the document a store function stages for its collection, or Thrown
StagedDocument(kind, docSnapshot, capture, origin, doc, clock) ==
    LET processedData == ProcessedData(docSnapshot, capture, origin, doc, clock) IN
    IF processedData = Thrown THEN Thrown
    ELSE IF docSnapshot # Undefined THEN appendNewData(docSnapshot, processedData, origin)
    ELSE IF kind = "capturedScreenshots"
    THEN Obj([k \in {"data", "timestamp", "originUrl"} |->
                CASE k = "data" -> processedData
                  [] k = "timestamp" -> Ts(ToString(clock))
                  [] OTHER -> Str(origin)])
    ELSE Obj([k \in {"data"} |-> processedData])

\* batch.set(ref, document)
BatchSet(b, collection, document) == With(b, collection, document)

\* a commit that lands one staged write only
BatchCommitPartial(st, b, doc) ==
    IF DOMAIN b = {} THEN st
    ELSE LET only == CHOOSE c \in DOMAIN b : TRUE IN
         [c \in Collections |-> IF c = only THEN [st[c] EXCEPT ![doc] = b[c]] ELSE st[c]]

\* a commit that keeps the stored document where one exists
BatchCommitKeeping(st, b, doc) ==
    [c \in Collections |->
        IF c \in DOMAIN b /\ st[c][doc] = Undefined THEN [st[c] EXCEPT ![doc] = b[c]] ELSE st[c]]

\* the store after batch.commit() succeeded: every staged write, together
BatchCommit(st, b, doc) ==
    [c \in Collections |-> IF c \in DOMAIN b THEN [st[c] EXCEPT ![doc] = b[c]] ELSE st[c]]

\* the Dedup Keys of the items a task delivers under a list name; an item the
\* processor drops for its missing Title counts as "untitled"
DeliveredKeys(t, origin, doc, name) ==
    LET raw == Field(Field(t, "capturedLists"), name) IN
    IF raw.t # "arr" THEN {}
    ELSE {LET item == processArrayItem(raw.a[i], name, i - 1, Null, origin, doc, 0) IN
          IF TitleMissing(item) THEN "untitled" ELSE createUniqueKeyForItem(item) :
            i \in 1..Len(raw.a)}

Tick ==
    /\ now < MaxTime
    /\ now' = now + 1
    /\ UNCHANGED <<store, pc, payload, task, originUrl, docName, arg, batch, result, repeat,
                   deliveries, discarded, lastMerge, rawKeys, itemIn, itemOut,
                   timestamp, reads, outcome, response,
                   cache, fetched, imageUpdate, middleware>>

\* processWebhookData up to its first await
Start(p, exclusive) ==
    /\ pc[p] = "idle"
    /\ deliveries < MaxDeliveries
    /\ \A q \in Procs : q < p => pc[q] # "idle"
    /\ exclusive => \A q \in Procs : pc[q] = "idle"
    /\ \E body \in Payloads :
          /\ deliveries' = deliveries + 1
          /\ IF ~Truthy(Field(body, "task"))
             THEN /\ result' = [result EXCEPT ![p] = "error400"]
                  /\ outcome' = [outcome EXCEPT ![p] = InvalidWebhookData]
                  /\ response' = [response EXCEPT ![p] = RouterResponse(InvalidWebhookData)]
                  /\ UNCHANGED <<pc, payload, task, originUrl, docName, arg, repeat, timestamp>>
             ELSE LET t == Field(body, "task")
                      origin == OriginOf(t)
                      first == NextKind(t, 1)
                  IN  /\ task' = t
                      /\ payload' = [payload EXCEPT ![p] = body]
                      /\ originUrl' = [originUrl EXCEPT ![p] = origin]
                      /\ docName' = [docName EXCEPT ![p] = extractDomainIdentifier(origin)]
                      /\ pc' = [pc EXCEPT ![p] = first]
                      /\ arg' = [arg EXCEPT ![p] = IF first = "commit" THEN Undefined ELSE Field(t, first)]
                      /\ result' = [result EXCEPT ![p] = "none"]
                      /\ repeat' = [repeat EXCEPT ![p] = (result[p] = "ok" /\ task = t)]
                      /\ timestamp' = [timestamp EXCEPT ![p] = now]
                      /\ outcome' = [outcome EXCEPT ![p] = Undefined]
                      /\ response' = [response EXCEPT ![p] = Undefined]
    /\ UNCHANGED <<store, now, batch, discarded, lastMerge, rawKeys, itemIn, itemOut, reads,
                   cache, fetched, imageUpdate, middleware>>

\* the delivery ends: its locals are gone
Ends(p, how, out) ==
    /\ outcome' = [outcome EXCEPT ![p] = out]
    /\ response' = [response EXCEPT ![p] = RouterResponse(out)]
    /\ timestamp' = [timestamp EXCEPT ![p] = 0]
    /\ reads' = [reads EXCEPT ![p] = NoReads]
    /\ pc' = [pc EXCEPT ![p] = "idle"]
    /\ result' = [result EXCEPT ![p] = how]
    /\ payload' = [payload EXCEPT ![p] = Undefined]
    /\ originUrl' = [originUrl EXCEPT ![p] = "unknown"]
    /\ docName' = [docName EXCEPT ![p] = "unknown"]
    /\ arg' = [arg EXCEPT ![p] = Undefined]
    /\ batch' = [batch EXCEPT ![p] = EmptyObj]
    /\ repeat' = [repeat EXCEPT ![p] = FALSE]
    /\ lastMerge' = NoMerge
    /\ UNCHANGED <<cache, fetched, imageUpdate, middleware>>

\* the error leaves processWebhookData; the batch is never committed
Fails(p, message) ==
    /\ Ends(p, "error", ErrorThrown(message))
    /\ discarded' = Cardinality(DOMAIN batch[p])
    /\ UNCHANGED <<store, now, task, deliveries, rawKeys, itemIn, itemOut>>

\* the awaited document read fails
ReadFails(p) ==
    /\ pc[p] \in {"capturedTexts", "capturedScreenshots", "capturedLists"}
    /\ Fails(p, "store read failed")

\* storeCaptured<Kind> from the answer of its read to its return, then
\* processWebhookData up to the next await
ReadAndStage(p) ==
    /\ pc[p] \in {"capturedTexts", "capturedScreenshots", "capturedLists"}
    /\ LET kind == pc[p]
           docSnapshot == store[CollectionOf(kind)][docName[p]]
           staged == StagedDocument(kind, docSnapshot, arg[p], originUrl[p], docName[p], now)
           next == NextKind(task, KindIndex(kind) + 1)
       IN  IF staged = Thrown
           THEN Fails(p, "TypeError")
           ELSE /\ batch' = [batch EXCEPT ![p] = BatchSet(batch[p], CollectionOf(kind), staged)]
                /\ pc' = [pc EXCEPT ![p] = next]
                /\ arg' = [arg EXCEPT ![p] = IF next = "commit" THEN Undefined ELSE Field(task, next)]
                /\ lastMerge' = [t |-> "merge", kind |-> kind, snapshot |-> docSnapshot,
                                 processed |-> ProcessedData(docSnapshot, arg[p], originUrl[p], docName[p], now),
                                 staged |-> staged]
                /\ reads' = [reads EXCEPT ![p][CollectionOf(kind)] = @ + 1]
                /\ UNCHANGED <<store, now, payload, task, originUrl, docName, result, repeat,
                               deliveries, discarded, rawKeys, itemIn, itemOut,
                               timestamp, outcome, response, cache, fetched, imageUpdate, middleware>>

\* batch.commit() rejects
CommitFails(p) ==
    /\ pc[p] = "commit"
    /\ Fails(p, "batch commit failed")

\* batch.commit() resolves and the success envelope is returned
Commit(p) ==
    /\ pc[p] = "commit"
    /\ store' = BatchCommit(store, batch[p], docName[p])
    /\ Ends(p, "ok", SuccessEnvelope(timestamp[p]))
    /\ rawKeys' = [rawKeys EXCEPT ![docName[p]] =
                      [l \in ListNames |->
                          rawKeys[docName[p]][l] \cup
                          DeliveredKeys(Field(payload[p], "task"), originUrl[p], docName[p], l)]]
    /\ UNCHANGED <<now, task, deliveries, discarded, itemIn, itemOut>>

\* deliveries one at a time
Next ==
    \/ Tick
    \/ \E p \in Procs : Start(p, TRUE)
    \/ \E p \in Procs : ReadFails(p)
    \/ \E p \in Procs : ReadAndStage(p)
    \/ \E p \in Procs : CommitFails(p)
    \/ \E p \in Procs : Commit(p)

Spec == Init /\ [][Next]_vars

\* deliveries that overlap: a request is taken up while others are suspended
NextConcurrent ==
    \/ Tick
    \/ \E p \in Procs : Start(p, FALSE)
    \/ \E p \in Procs : ReadFails(p)
    \/ \E p \in Procs : ReadAndStage(p)
    \/ \E p \in Procs : CommitFails(p)
    \/ \E p \in Procs : Commit(p)

SpecConcurrent == Init /\ [][NextConcurrent]_vars

(***************************************************************************)
(* A GET route behind cacheMiddleware.  The route handler answers with the *)
(* time of its run, as the example route does.                             *)
(***************************************************************************)
\* what the route handler hands to res.json
HandlerData(time) == Str(ToString(time))

\* the request went to the handler; for a GET the overridden res.json
\* stored the handler's data in the provider of this request
Handled(method, url, provider) ==
    [requests |-> middleware.requests + 1,
     runs |-> [middleware.runs EXCEPT ![url] = @ + 1],
     served |-> [method |-> method, url |-> url, hit |-> FALSE, body |-> HandlerData(now)],
     instance |-> IF method = "GET"
                  THEN InMemoryCacheSet(provider, CacheKey(url), HandlerData(now), DefaultTtl, now)
                  ELSE middleware.instance,
     sets |-> IF method = "GET"
              THEN [middleware.sets EXCEPT ![url] = DateNow(now) + DefaultTtl * 1000]
              ELSE middleware.sets]

\* the request was answered with the cached response
ServedFromCache(url, provider, cachedResponse) ==
    [middleware EXCEPT !.requests = @ + 1,
                       !.served = [method |-> "GET", url |-> url, hit |-> TRUE, body |-> cachedResponse],
                       !.instance = provider]

\* cacheMiddleware and the route handler behind it, for one request
Request(method, url) ==
    /\ middleware.requests < MaxRequests
    /\ middleware' =
          IF method # "GET" THEN Handled(method, url, middleware.instance)
          ELSE IF Truthy(InMemoryCacheGet(createCache(middleware.instance), CacheKey(url), now))
          THEN ServedFromCache(url, InMemoryCacheAfterGet(createCache(middleware.instance), CacheKey(url), now),
                               InMemoryCacheGet(createCache(middleware.instance), CacheKey(url), now))
          ELSE Handled(method, url,
                       InMemoryCacheAfterGet(createCache(middleware.instance), CacheKey(url), now))
    /\ UNCHANGED <<store, now, pc, payload, task, originUrl, docName, arg, batch, result, repeat,
                   deliveries, discarded, lastMerge, rawKeys, itemIn, itemOut,
                   timestamp, reads, outcome, response, cache, fetched, imageUpdate>>

NextCache ==
    \/ Tick
    \/ \E method \in {"GET", "POST"}, url \in RouteUrls : Request(method, url)

SpecCache == Init /\ [][NextCache]_vars

(***************************************************************************)
(* services/firestore/firestore.service.ts: the category read path and the *)
(* image annotation, next to the deliveries                                *)
(***************************************************************************)
\* `category:${collection}:${documentId}:${categoryName}`
CategoryCacheKey(collection, documentId, categoryName) ==
    "category:" \o collection \o ":" \o documentId \o ":" \o categoryName

\* doc.data().data || {}, of a document that exists
DocData(doc) == IF Truthy(Field(doc, "data")) THEN Field(doc, "data") ELSE Obj(EmptyObj)

\* fetchCategoryData after a cache miss: the array read from the document, or the error thrown
FetchFromStore(doc, categoryName) ==
    IF doc = Undefined THEN [error |-> "Document not found"]
    ELSE IF ~Truthy(Field(DocData(doc), categoryName)) \/ ~IsArray(Field(DocData(doc), categoryName))
    THEN [error |-> "Category not found or is not an array"]
    ELSE Field(DocData(doc), categoryName)

Fetched(n, key, cachedData, fromStore) ==
    IF Truthy(cachedData)
    THEN [n |-> n, key |-> key, source |-> "cache", value |-> cachedData]
    ELSE [n |-> n, key |-> key, source |-> "store", value |-> fromStore]

\* the cache after the call: the expired entry deleted by get, the array read set
CacheAfterFetch(map, key, cachedData, fromStore, time) ==
    IF Truthy(cachedData) \/ "error" \in DOMAIN fromStore THEN map
    ELSE InMemoryCacheSet(map, key, fromStore, CACHE_TTL, time)

FetchCategoryData(collection, documentId, categoryName) ==
    /\ fetched.n < MaxFetches
    /\ \A p \in Procs : pc[p] = "idle"
    /\ fetched' = Fetched(fetched.n + 1, CategoryCacheKey(collection, documentId, categoryName),
                          InMemoryCacheGet(cache, CategoryCacheKey(collection, documentId, categoryName), now),
                          FetchFromStore(store[collection][documentId], categoryName))
    /\ cache' = CacheAfterFetch(
                    InMemoryCacheAfterGet(cache, CategoryCacheKey(collection, documentId, categoryName), now),
                    CategoryCacheKey(collection, documentId, categoryName),
                    InMemoryCacheGet(cache, CategoryCacheKey(collection, documentId, categoryName), now),
                    FetchFromStore(store[collection][documentId], categoryName), now)
    /\ UNCHANGED <<store, now, pc, payload, task, originUrl, docName, arg, batch, result, repeat,
                   deliveries, discarded, lastMerge, rawKeys, itemIn, itemOut,
                   timestamp, reads, outcome, response, imageUpdate, middleware>>

\* items.findIndex((item) => item.uid === uid), 0 for -1
FindIndexByUid(items, uid) ==
    IF \E i \in 1..Len(items) : Field(items[i], "uid") = Str(uid)
    THEN CHOOSE i \in 1..Len(items) :
            /\ Field(items[i], "uid") = Str(uid)
            /\ \A j \in 1..(i - 1) : Field(items[j], "uid") # Str(uid)
    ELSE 0

\* the items with ImageUrl of the item at the index replaced
WithImageUrlAt(items, index, imageUrlArray) ==
    [i \in 1..Len(items) |->
        IF i = index THEN Obj(With(Entries(items[i]), "ImageUrl", Arr(imageUrlArray))) ELSE items[i]]

\* update({ [`data.${subcategory}`]: updatedItems })
UpdateDataField(doc, subcategory, updatedItems) ==
    Obj(With(doc.o, "data", Obj(With(doc.o["data"].o, subcategory, Arr(updatedItems)))))

\* the answer of updateImageByPath
ImageUpdateResult(doc, subcategory, uid) ==
    IF doc = Undefined THEN [error |-> "Document not found in collection"]
    ELSE IF ~Truthy(Field(doc, "data")) \/ ~Truthy(Field(Field(doc, "data"), subcategory))
    THEN [error |-> "Subcategory not found in document"]
    ELSE IF ~IsArray(Field(Field(doc, "data"), subcategory))
    THEN [error |-> "Subcategory does not contain an array of items"]
    ELSE IF FindIndexByUid(Field(Field(doc, "data"), subcategory).a, uid) = 0
    THEN [error |-> "Item not found in subcategory"]
    ELSE [success |-> TRUE]

ImageUrls == {<<Str("https://img.example.com/1.png")>>}

\* the uids updateImageByPath is called with: those of the stored items and one of no item
UidsOf(doc, subcategory) ==
    IF doc # Undefined /\ IsArray(Field(Field(doc, "data"), subcategory))
    THEN {Field(Field(Field(doc, "data"), subcategory).a[i], "uid").s :
             i \in 1..Len(Field(Field(doc, "data"), subcategory).a)} \cup {"no-such-uid"}
    ELSE {"no-such-uid"}

UpdateImageByPath(collection, documentName, subcategory, uid, imageUrlArray) ==
    /\ \A p \in Procs : pc[p] = "idle"
    /\ imageUpdate' = ImageUpdateResult(store[collection][documentName], subcategory, uid)
    /\ store' = IF "success" \in DOMAIN ImageUpdateResult(store[collection][documentName], subcategory, uid)
                THEN [store EXCEPT ![collection][documentName] =
                        UpdateDataField(@, subcategory,
                            WithImageUrlAt(Field(Field(@, "data"), subcategory).a,
                                           FindIndexByUid(Field(Field(@, "data"), subcategory).a, uid),
                                           imageUrlArray))]
                ELSE store
    /\ UNCHANGED <<now, pc, payload, task, originUrl, docName, arg, batch, result, repeat,
                   deliveries, discarded, lastMerge, rawKeys, itemIn, itemOut,
                   timestamp, reads, outcome, response, cache, fetched, middleware>>

\* clearImageByPath: updateImageByPath with []
ClearImageByPath(collection, documentName, subcategory, uid) ==
    UpdateImageByPath(collection, documentName, subcategory, uid, <<>>)

\* the deliveries of the read path: list captures of one source
ReadPayloads ==
    {Obj([k \in {"task"} |-> Task(UrlOleMiss, FALSE, FALSE, ListCapture("OleSports", items))]) :
        items \in {<<RawTucson18>>, <<RawOxford20>>}}

\* the categories read: one the deliveries write and one nothing writes
ReadCategories == {"OleSports", "Events"}

NextRead ==
    \/ Tick
    \/ \E p \in Procs : Start(p, TRUE) /\ payload'[p] \in ReadPayloads
    \/ \E p \in Procs : ReadFails(p)
    \/ \E p \in Procs : ReadAndStage(p)
    \/ \E p \in Procs : CommitFails(p)
    \/ \E p \in Procs : Commit(p)
    \/ \E categoryName \in ReadCategories :
          FetchCategoryData("captured_lists", OleMissDomain, categoryName)
    \/ \E uid \in UidsOf(store["captured_lists"][OleMissDomain], "OleSports"), imageUrl \in ImageUrls :
          UpdateImageByPath("captured_lists", OleMissDomain, "OleSports", uid, imageUrl)
    \/ \E uid \in UidsOf(store["captured_lists"][OleMissDomain], "OleSports") :
          ClearImageByPath("captured_lists", OleMissDomain, "OleSports", uid)

SpecRead == Init /\ [][NextRead]_vars


(***************************************************************************)
(* Properties of the ingestion pipeline (Spec).                            *)
(***************************************************************************)
\* the array persisted under a list name of a document, Undefined when there is none
ListArray(st, d, l) == Field(Field(st["captured_lists"][d], "data"), l)

ListItems(st, d, l) == IF IsArray(ListArray(st, d, l)) THEN ListArray(st, d, l).a ELSE <<>>

\* C1: idempotent re-delivery. When a delivery carrying the same task as the
\* committed delivery just before it commits, every persisted list array
\* has the same items, in the same number, as before that commit.
C1_IdempotentRedelivery ==
    [][\A p \in Procs :
          (pc[p] = "commit" /\ repeat[p] /\ result'[p] = "ok")
          => \A d \in DocNames, l \in ListNames : ListArray(store', d, l) = ListArray(store, d, l)]_vars

\* C2: append-only growth. Starting from the empty store, the length of a
\* persisted list array equals the number of distinct Dedup Keys among the
\* items of all committed deliveries (lists to which an item without Title
\* was delivered are left aside: such items are dropped).
C2_AppendOnlyGrowth ==
    \A d \in DocNames, l \in ListNames :
        "untitled" \notin rawKeys[d][l]
        => Len(ListItems(store, d, l)) = Cardinality(rawKeys[d][l])

\* C3: ingestion never removes, reorders or changes existing items. In every
\* step the array persisted under a list name before the step is a prefix of
\* the array persisted after it, and a document that exists keeps existing.
C3_ExistingItemsKept ==
    [][/\ \A c \in Collections, d \in DocNames :
             store[c][d] # Undefined => store'[c][d] # Undefined
       /\ \A d \in DocNames, l \in ListNames :
             IsArray(ListArray(store, d, l))
             => /\ IsArray(ListArray(store', d, l))
                /\ IsPrefix(ListArray(store, d, l).a, ListArray(store', d, l).a)]_vars

\* C3 witness: a delivery whose only list holds nothing after deduplication
\* has been committed onto a list array that still holds its item.
C3_EmptyCaptureCommitted ==
    /\ task = Task(UrlOleMiss, FALSE, FALSE, ListCapture("OleSports", <<RawNullTitle, RawNullTitle>>))
    /\ result[1] = "ok"
    /\ deliveries = 2
    /\ Len(ListItems(store, OleMissDomain, "OleSports")) >= 1

\* C4: delta contract. Whenever a list capture is merged into an existing
\* document, the cleaned value of a list name that already has a persisted
\* array holds none of the items of that array.
C4_DeltaContract ==
    (lastMerge.t = "merge" /\ lastMerge.kind = "capturedLists" /\ lastMerge.snapshot # Undefined)
    => \A key \in DOMAIN lastMerge.processed.o :
          LET existing == Field(Field(lastMerge.snapshot, "data"), key)
              output == lastMerge.processed.o[key]
          IN  (IsArray(existing) /\ IsArray(output))
              => \A i \in 1..Len(output.a), j \in 1..Len(existing.a) : output.a[i] # existing.a[j]

\* C5: one delivery's writes are one atomic batch. The store changes only
\* in a step in which a delivery's commit succeeds, and then every write the
\* delivery staged lands in that step; a delivery that ends in an error
\* leaves the store as it was.
C5_AtomicBatch ==
    [][/\ store' # store
          => \E p \in Procs :
                /\ pc[p] = "commit"
                /\ result'[p] = "ok"
                /\ \A c \in Collections, d \in DocNames :
                      store'[c][d] = IF c \in DOMAIN batch[p] /\ d = docName[p]
                                     THEN batch[p][c]
                                     ELSE store[c][d]
       /\ \A p \in Procs :
             (pc[p] # "idle" /\ pc'[p] = "idle" /\ result'[p] # "ok") => store' = store]_vars

\* C5 witness: a delivery failed after it had staged a write, and the
\* document that write was for does not exist.
C5_StagedWritesDropped ==
    /\ discarded >= 1
    /\ result[1] = "error"
    /\ deliveries = 1
    /\ \A c \in Collections, d \in DocNames : store[c][d] = Undefined

\* C7: uid uniqueness. In every persisted list array the uids of the items
\* are pairwise distinct.
C7_UidUnique ==
    \A d \in DocNames, l \in ListNames :
        LET items == ListItems(store, d, l) IN
        \A i \in 1..Len(items), j \in 1..Len(items) :
            i < j => Field(items[i], "uid") # Field(items[j], "uid")

\* C10: Document Merge Engine. With no existing document the result is the
\* cleaned capture under data. With an existing document, every key of the
\* cleaned capture holds existing ++ new when both values are arrays and
\* the new value otherwise, and every other key of the existing data keeps
\* its value.
C10_MergeEngine ==
    lastMerge.t = "merge"
    => /\ appendNewData(Undefined, lastMerge.processed, "unknown")
            = Obj([k \in {"data"} |-> lastMerge.processed])
       /\ lastMerge.snapshot # Undefined
          => LET old == Field(lastMerge.snapshot, "data")
                 new == lastMerge.processed.o
                 out == Field(lastMerge.staged, "data")
             IN  /\ out.t = "obj"
                 /\ DOMAIN out.o = DOMAIN new \cup (IF old.t = "obj" THEN DOMAIN old.o ELSE {})
                 /\ \A k \in DOMAIN new :
                       out.o[k] = IF IsArray(Field(old, k)) /\ IsArray(new[k])
                                  THEN Arr(Field(old, k).a \o new[k].a)
                                  ELSE new[k]
                 /\ \A k \in DOMAIN out.o \ DOMAIN new : out.o[k] = old.o[k]

\* C10 witness: a capture for the list Events is merged into a document that
\* holds the list OleSports only.
C10_UnrelatedKeyMerged ==
    /\ lastMerge.t = "merge"
    /\ lastMerge.kind = "capturedLists"
    /\ lastMerge.snapshot # Undefined
    /\ DOMAIN Field(lastMerge.snapshot, "data").o = {"OleSports"}
    /\ DOMAIN lastMerge.processed.o = {"Events"}
    /\ DOMAIN Field(lastMerge.staged, "data").o = {"OleSports", "Events"}

(***************************************************************************)
(* The Item Normalizer and the Recursive Field Cleaner on their own: one   *)
(* raw value, as storeCapturedLists hands it over after                    *)
(* convertToFirestoreFormat.                                               *)
(***************************************************************************)
MaxIndex == 1

RawCustom ==
    Obj(("Title" :> Str("Custom")) @@ ("uid" :> Str("raw-uid-1")) @@ ("Foo" :> Str("bar"))
        @@ ("Position" :> Str("3")) @@ ("_STATUS" :> Str("ok")))
RawImageString == Obj(("ImageUrl" :> Str("https://img.example.com/1.png")) @@ ("Date" :> Str("MAY SAT 24")))
RawImageArray == Obj(("ImageUrl" :> Arr(<<Str("https://img.example.com/1.png")>>)))
RawImageObjects ==
    Obj(("ImageUrl" :> Arr(<<Obj(("src" :> Str("https://img.example.com/1.png")) @@ ("position" :> Str("1")))>>)))
RawNested ==
    Obj(("Location" :> Obj(("name" :> Str("Gym")) @@ ("position" :> Str("1")) @@ ("_STATUS" :> Str("x"))))
        @@ ("Date" :> Str("2025-05-24")))
RawDetailSimple ==
    Obj(("DetailSrc" :> Str(HtmlSimple)) @@ ("Logo" :> Str(LogoCrop)) @@ ("Sports" :> Str("SB"))
        @@ ("EventDate" :> Str("May 18")))
RawDetailRange == Obj(("DetailSrc" :> Str(HtmlRange)) @@ ("Sport" :> Str("WGOLF")) @@ ("position" :> Str("2")))
RawDetailPlain == Obj(("DetailSrc" :> Str(HtmlPlain)) @@ ("Logo" :> Str(LogoPlain)) @@ ("Score" :> Str("W 5-2")))
RawIsoTime == Obj(("Time" :> Str("2025-05-18T18:30:00Z")) @@ ("Description" :> Str("First pitch")))
RawEmpty == Obj(EmptyObj)
RawCanonical == Obj(("Date" :> Str("2025-05-24")) @@ ("Location" :> Str("Oxford")))
RawCanonicalDetail == Obj(("Date" :> Str("2025-05-24")) @@ ("DetailSrc" :> Str(HtmlSimple)))
RawDetailTimed ==
    Obj(("DetailSrc" :> Str(HtmlTimed)) @@ ("EventDate" :> Str("2025-05-18T18:30:00Z"))
        @@ ("Logo" :> Str(LogoCrop)))
RawDetailTimedText == Obj(("DetailSrc" :> Str(HtmlTimed)) @@ ("EventDate" :> Str("May 18")))
RawDetailTbd == Obj(("DetailSrc" :> Str(HtmlTbd)) @@ ("Sports" :> Str("SB")))
RawNullTitleTucson == Obj(("Title" :> Null) @@ ("Location" :> Str("Tucson")))
RawEmptyTitleTucson == Obj(("Title" :> Str("")) @@ ("Location" :> Str("Tucson")))

RawDetailObject ==
    Obj(("DetailSrc" :> Obj(("html" :> Str(HtmlSimple)))) @@ ("Logo" :> Str(LogoCrop)))
RawPlainCrop == Obj(("DetailSrc" :> Str(HtmlPlain)) @@ ("Logo" :> Str(LogoCrop)))
RawDetailScored == Obj(("DetailSrc" :> Str(HtmlScored)) @@ ("Sports" :> Str("SB")))
RawDetailGolf ==
    Obj(("DetailSrc" :> Str(HtmlGolf)) @@ ("Sports" :> Str("WGOLF")) @@ ("Sport" :> Str("WGOLF")))

ItemPool ==
    {RawDetailObject, RawPlainCrop, RawDetailScored, RawDetailGolf, RawTucson18, RawNullTitle, RawLoose, Null, RawCustom, RawImageString, RawImageArray,
     RawImageObjects, RawNested, RawDetailSimple, RawDetailRange, RawDetailPlain, RawIsoTime, RawEmpty,
     RawCanonical, RawCanonicalDetail, RawDetailTimed, RawDetailTimedText, RawDetailTbd,
     RawNullTitleTucson}

ItemInputs ==
    [item : ItemPool, key : {"OleSports", "Top Stories"}, index : 0..MaxIndex,
     originUrl : {UrlOleMiss, UrlEspn, UrlEspnRef, "unknown"}, clock : 1..MaxTime]

InitItem ==
    /\ InitPipeline
    /\ itemIn \in ItemInputs
    /\ itemOut = Undefined

\* processArrayItem on one element of a captured list
NormalizeItem ==
    /\ itemIn # Undefined
    /\ itemOut = Undefined
    /\ itemOut' = [op |-> "item",
                   value |-> processArrayItem(convertToFirestoreFormat(itemIn.item), itemIn.key,
                                 itemIn.index, Null, itemIn.originUrl,
                                 extractDomainIdentifier(itemIn.originUrl), itemIn.clock)]
    /\ UNCHANGED <<store, now, pc, payload, task, originUrl, docName, arg, batch, result, repeat,
                   deliveries, discarded, lastMerge, rawKeys, itemIn,
                   timestamp, reads, outcome, response,
                   cache, fetched, imageUpdate, middleware>>

\* cleanDataFields on a capture whose one entry is the value
CleanCapture ==
    /\ itemIn # Undefined
    /\ itemOut = Undefined
    /\ itemOut' = [op |-> "clean",
                   value |-> cleanDataFields(
                                 convertToFirestoreFormat(Obj((itemIn.key :> itemIn.item))),
                                 Null, itemIn.originUrl,
                                 extractDomainIdentifier(itemIn.originUrl), itemIn.clock)]
    /\ UNCHANGED <<store, now, pc, payload, task, originUrl, docName, arg, batch, result, repeat,
                   deliveries, discarded, lastMerge, rawKeys, itemIn,
                   timestamp, reads, outcome, response,
                   cache, fetched, imageUpdate, middleware>>

\* what storeCapturedLists makes of one raw element of a list
Normalize(item, key, index, url, clock) ==
    processArrayItem(convertToFirestoreFormat(item), key, index, Null, url,
                     extractDomainIdentifier(url), clock)

\* the deduplication functions on the two normalized items of a captured list
PairResult(a, b) ==
    [op |-> "pair", value |-> a, other |-> b,
     deduplicated |-> IF a = Thrown \/ b = Thrown THEN Thrown ELSE Arr(deduplicateItems(<<a, b>>)),
     fresh |-> IF a = Thrown \/ b = Thrown THEN Thrown
               ELSE Arr(deduplicateAgainstExisting(<<a>>, <<b>>)),
     equivalent |-> a # Thrown /\ b # Thrown /\ areArraysEquivalent(<<a>>, <<b>>)]

\* processArrayField's deduplication of a list of two elements
PairItems ==
    /\ itemIn # Undefined
    /\ itemOut = Undefined
    /\ \E second \in ItemPool :
          itemOut' = PairResult(
                        Normalize(itemIn.item, itemIn.key, itemIn.index, itemIn.originUrl, itemIn.clock),
                        Normalize(second, itemIn.key, itemIn.index + 1, itemIn.originUrl, itemIn.clock))
    /\ UNCHANGED <<store, now, pc, payload, task, originUrl, docName, arg, batch, result, repeat,
                   deliveries, discarded, lastMerge, rawKeys, itemIn,
                   timestamp, reads, outcome, response,
                   cache, fetched, imageUpdate, middleware>>

\* the values a caller can pass for the URL: none, the empty text, the
\* placeholder, a text that is no URL, and URLs of hosts of 1, 3 and 4 labels
UrlInputs ==
    {Undefined, Null, Str(""), Str("unknown"), Str(UrlBad), Str(UrlLocal), Str(UrlEspn),
     Str(UrlOleMiss), Str(UrlEspnRef), Str(UrlDeep)}

\* extractDomainIdentifier on a value of any kind: the guard `url &&` and
\* the try block around the URL constructor
DomainIdentifierOf(url) ==
    IF Truthy(url) /\ url.t = "str" THEN extractDomainIdentifier(url.s) ELSE "unknown"

IdentifyDomain ==
    /\ itemIn # Undefined
    /\ itemOut = Undefined
    /\ \E url \in UrlInputs :
          itemOut' = [op |-> "domain", url |-> url, value |-> Str(DomainIdentifierOf(url))]
    /\ UNCHANGED <<store, now, pc, payload, task, originUrl, docName, arg, batch, result, repeat,
                   deliveries, discarded, lastMerge, rawKeys, itemIn,
                   timestamp, reads, outcome, response,
                   cache, fetched, imageUpdate, middleware>>

\* event date texts: the three supported formats, a range that ends in the
\* next year, a date with a year, the empty text and a text without a date
EventDateInputs ==
    {"", "TBD", "Jan 1", "May 18 (Sun)", "Jan 1, 2023", "Jan 1-3, 2023", "Jun 11(Wed)-Jun 13(Fri)",
     "Jun 19 (Thu) - Jun 20 (Fri)", "Dec 30(Tue)-Jan 2(Fri)"}

ParseEventDate ==
    /\ itemIn # Undefined
    /\ itemOut = Undefined
    /\ \E eventDateStr \in EventDateInputs :
          itemOut' = [op |-> "dates", input |-> eventDateStr, value |-> parseEventDate(eventDateStr)]
    /\ UNCHANGED <<store, now, pc, payload, task, originUrl, docName, arg, batch, result, repeat,
                   deliveries, discarded, lastMerge, rawKeys, itemIn,
                   timestamp, reads, outcome, response,
                   cache, fetched, imageUpdate, middleware>>

\* a normalized item handed to processArrayItem once more
Renormalized(first, key, index, url, clock) ==
    [op |-> "again", first |-> first,
     value |-> IF first = Thrown THEN Thrown ELSE Normalize(first, key, index, url, clock)]

NormalizeAgain ==
    /\ itemIn # Undefined
    /\ itemOut = Undefined
    /\ itemOut' = Renormalized(
                      Normalize(itemIn.item, itemIn.key, itemIn.index, itemIn.originUrl, itemIn.clock),
                      itemIn.key, itemIn.index, itemIn.originUrl, itemIn.clock)
    /\ UNCHANGED <<store, now, pc, payload, task, originUrl, docName, arg, batch, result, repeat,
                   deliveries, discarded, lastMerge, rawKeys, itemIn,
                   timestamp, reads, outcome, response,
                   cache, fetched, imageUpdate, middleware>>

\* DetailSrc texts: none, without the marker, the bare header, headers with
\* dates, and headers with a score
DetailSrcInputs ==
    {"", HtmlPlain, HtmlBare, HtmlSimple, HtmlRange, HtmlTimed, HtmlTbd, HtmlScored, HtmlGolf}

ExtractScore ==
    /\ itemIn # Undefined
    /\ itemOut = Undefined
    /\ \E detailSrc \in DetailSrcInputs, sportType \in {"", "SB", "WGOLF", "MGOLF"} :
          itemOut' = [op |-> "score", input |-> detailSrc, sport |-> sportType,
                      value |-> extractScore(detailSrc, sportType)]
    /\ UNCHANGED <<store, now, pc, payload, task, originUrl, docName, arg, batch, result, repeat,
                   deliveries, discarded, lastMerge, rawKeys, itemIn,
                   timestamp, reads, outcome, response,
                   cache, fetched, imageUpdate, middleware>>

\* the second element of the captured list
SecondItems == {RawTucson18, RawOxford20, RawCanonical, RawNullTitle, RawEmptyTitleTucson}

\* an item persisted by an earlier delivery, at clock reading 0
Persisted(raw, key, index, url) == Normalize(raw, key, index, url, 0)

\* the arrays persisted under the list name: none, one item, an item twice
\* (as the merge of a re-delivery leaves it), two different items
PersistedArrays(key, url) ==
    {Undefined}
    \cup {Arr(<<Persisted(a, key, 0, url)>>) : a \in {RawTucson18, RawCanonical}}
    \cup {Arr(<<Persisted(a, key, 0, url), Persisted(b, key, 1, url)>>) :
            a \in {RawTucson18, RawCanonical}, b \in {RawTucson18, RawCanonical}}

\* the persisted document that holds the array
PersistedDocument(key, existingArray) ==
    IF existingArray = Undefined THEN Null
    ELSE Obj([k \in {"data"} |-> Obj([l \in {key} |-> existingArray])])

\* value.map((item, index) => processArrayItem(item, key, index, ...))
ProcessedItems(key, value, existingData, url, doc, clock) ==
    [i \in 1..Len(value) |-> processArrayItem(value[i], key, i - 1, existingData, url, doc, clock)]

\* processArrayField and its intermediate values
ListResult(key, value, existingArray, existingData, url, doc, clock, processedItems) ==
    [op |-> "list",
     existing |-> existingArray,
     processed |-> ArrOrThrown(processedItems),
     deduplicated |-> IF AnyThrown(processedItems) THEN Thrown
                      ELSE Arr(deduplicateItems(processedItems)),
     value |-> processArrayField(key, value, existingData, url, doc, clock)]

\* the captured list: one element, or two
CapturedList(first, second) ==
    IF second = Undefined THEN <<convertToFirestoreFormat(first)>>
    ELSE <<convertToFirestoreFormat(first), convertToFirestoreFormat(second)>>

ProcessList ==
    /\ itemIn # Undefined
    /\ itemOut = Undefined
    /\ \E second \in SecondItems \cup {Undefined},
          existingArray \in PersistedArrays(itemIn.key, itemIn.originUrl) :
          itemOut' = ListResult(
              itemIn.key, CapturedList(itemIn.item, second), existingArray,
              PersistedDocument(itemIn.key, existingArray),
              itemIn.originUrl, extractDomainIdentifier(itemIn.originUrl), itemIn.clock,
              ProcessedItems(itemIn.key, CapturedList(itemIn.item, second),
                             PersistedDocument(itemIn.key, existingArray), itemIn.originUrl,
                             extractDomainIdentifier(itemIn.originUrl), itemIn.clock))
    /\ UNCHANGED <<store, now, pc, payload, task, originUrl, docName, arg, batch, result, repeat,
                   deliveries, discarded, lastMerge, rawKeys, itemIn,
                   timestamp, reads, outcome, response, cache, fetched, imageUpdate, middleware>>

NextItem ==
    \/ ProcessList
    \/ ExtractScore
    \/ NormalizeItem
    \/ CleanCapture
    \/ PairItems
    \/ IdentifyDomain
    \/ ParseEventDate
    \/ NormalizeAgain

SpecItem == InitItem /\ [][NextItem]_vars


(***************************************************************************)
(* Properties of the Item Normalizer and the Field Cleaner (SpecItem).     *)
(***************************************************************************)
Normalized == itemOut # Undefined /\ itemOut.op = "item"

RawIsObject == itemIn.item.t = "obj"

\* no key named position (in any case) or _STATUS at any depth of a value
RECURSIVE NoBannedKeys(_)
NoBannedKeys(v) ==
    CASE v.t = "obj" ->
            \A k \in DOMAIN v.o : ~LowerIsPosition(k) /\ k # "_STATUS" /\ NoBannedKeys(v.o[k])
      [] v.t = "arr" -> \A i \in 1..Len(v.a) : NoBannedKeys(v.a[i])
      [] OTHER -> TRUE

\* C6: ImageUrl invariant. For every raw object the normalizer returns an
\* item, and the item's ImageUrl is present and is an array.
C6_ImageUrlAlwaysArray ==
    (Normalized /\ RawIsObject)
    => /\ itemOut.value.t = "obj"
       /\ "ImageUrl" \in DOMAIN itemOut.value.o
       /\ IsArray(itemOut.value.o["ImageUrl"])

\* C8 as stated: the keys of a normalized item lie in the allowed set chosen
\* by the domain identifier alone, and no banned key occurs at any depth of
\* the normalized item or of the cleaned capture.
C8_AllowedByDomainIdentifier ==
    (itemOut # Undefined /\ itemOut.value.t = "obj")
    => /\ NoBannedKeys(itemOut.value)
       /\ itemOut.op = "item"
          => DOMAIN itemOut.value.o \subseteq
                {"uid", "Title", "originUrl", "Date", "ImageUrl", "Location", "Logo", "Time",
                 "Description"}
                \cup (IF extractDomainIdentifier(itemIn.originUrl) = "olemisssports.com"
                      THEN {"Score", "EventDate", "EventEndDate", "Sports", "DetailSrc"}
                      ELSE {})

\* C8 amended: the keys of a normalized item lie in the base set, extended
\* by the site-specific fields when the domain identifier is the recognized
\* source or the origin URL contains its name; no banned key occurs at any
\* depth of the normalized item or of the cleaned capture.
C8_AllowedFieldNarrowing ==
    (itemOut # Undefined /\ itemOut.value.t = "obj")
    => /\ NoBannedKeys(itemOut.value)
       /\ itemOut.op = "item"
          => DOMAIN itemOut.value.o \subseteq
                {"uid", "Title", "originUrl", "Date", "ImageUrl", "Location", "Logo", "Time",
                 "Description"}
                \cup (IF \/ extractDomainIdentifier(itemIn.originUrl) = "olemisssports.com"
                         \/ IncludesOleMiss(itemIn.originUrl)
                      THEN {"Score", "EventDate", "EventEndDate", "Sports", "DetailSrc"}
                      ELSE {})

\* C8 witness: an item from a URL of another domain that mentions the
\* recognized source has been normalized and keeps a site-specific field,
\* while its enrichment has run.
C8_ExtendedByOriginUrl ==
    /\ Normalized
    /\ itemIn.originUrl = UrlEspnRef
    /\ itemIn.item = RawDetailSimple
    /\ itemOut.value.t = "obj"
    /\ "Sports" \in DOMAIN itemOut.value.o
    /\ "Logo" \in DOMAIN itemOut.value.o

StartsNext(p) == pc[p] = "idle" /\ \A q \in Procs : q < p => pc[q] # "idle"

\* a step in which p's request is rejected for its missing task envelope
Rejects(p) == StartsNext(p) /\ deliveries' # deliveries /\ pc' = pc

\* C11: a payload without task envelope is rejected as a 400-class error
\* with a reason, before any store read or write; the caller can tell it
\* from the 500-class answer to a store or processing failure.
C11_MalformedPayloadIs400 ==
    [][\A p \in Procs :
          /\ Rejects(p)
             => /\ outcome'[p].status = 400
                /\ outcome'[p].message # ""
                /\ response'[p].status = 400
                /\ store' = store /\ reads' = reads /\ batch' = batch
          /\ (pc[p] # "idle" /\ result'[p] = "error") => response'[p].status = 500]_vars

\* C12: a store read failure or a commit failure ends the delivery with a
\* thrown error that the router answers with status 500, leaving the store
\* as it was; nothing is retried: within a delivery each collection's
\* document is read at most once and a commit attempt ends the delivery.
C12_FailurePropagatesNoRetry ==
    [][\A p \in Procs :
          /\ (pc[p] # "idle" /\ result'[p] = "error")
             => /\ pc'[p] = "idle"
                /\ outcome'[p].t = "thrown"
                /\ response'[p].status = 500
                /\ response'[p].body.success = FALSE
                /\ store' = store
          /\ \A c \in Collections : reads'[p][c] <= 1
          /\ (pc[p] # "idle" /\ pc'[p] # pc[p] /\ pc'[p] # "idle")
             => /\ pc[p] # "commit"
                /\ reads'[p][CollectionOf(pc[p])] = 1
                /\ pc'[p] = "commit" \/ reads'[p][CollectionOf(pc'[p])] = 0]_vars

\* C12 witness: the commit of a delivery that had staged a write failed,
\* and the router answered 500.
C12_CommitFailureAnswered500 ==
    /\ result[1] = "error"
    /\ outcome[1] = ErrorThrown("batch commit failed")
    /\ response[1].status = 500
    /\ discarded >= 1
    /\ \A c \in Collections, d \in DocNames : store[c][d] = Undefined

\* C13: deliveries are not isolated. A commit writes the document the
\* delivery staged from the snapshot it read, whatever the store holds by
\* then: after the commit every list holds exactly the staged items, so
\* items another delivery committed in between are gone.
C13_CommitOverwrites ==
    [][\A p \in Procs :
          (pc[p] = "commit" /\ result'[p] = "ok" /\ "captured_lists" \in DOMAIN batch[p])
          => \A l \in ListNames :
                LET staged == Field(Field(batch[p]["captured_lists"], "data"), l) IN
                /\ ListArray(store', docName[p], l) = staged
                /\ \A i \in 1..Len(ListItems(store, docName[p], l)) :
                      (IsArray(staged) /\ \A j \in 1..Len(staged.a) :
                                             staged.a[j] # ListItems(store, docName[p], l)[i])
                      => \A j \in 1..Len(ListItems(store', docName[p], l)) :
                            ListItems(store', docName[p], l)[j] # ListItems(store, docName[p], l)[i]]_vars

\* C13 witness: two overlapping deliveries for one domain identifier, one
\* with the Tucson item and one with the Oxford item, have both committed,
\* and the persisted list holds one item only.
C13_LostUpdate ==
    /\ result[1] = "ok" /\ result[2] = "ok"
    /\ Cardinality(rawKeys[OleMissDomain]["OleSports"]) = 2
    /\ "untitled" \notin rawKeys[OleMissDomain]["OleSports"]
    /\ Len(ListItems(store, OleMissDomain, "OleSports")) = 1

\* C14: on success the orchestrator returns the success envelope with its
\* processed-at time, and collections lists exactly the collections for
\* which the delivery staged and committed a write.
C14_EnvelopeListsAffectedKinds ==
    [][\A p \in Procs :
          (pc[p] = "commit" /\ result'[p] = "ok")
          => /\ outcome'[p].t = "returned"
             /\ outcome'[p].success = TRUE
             /\ outcome'[p].processedAt = ToString(timestamp[p])
             /\ response'[p] = [status |-> 200, body |-> outcome'[p]]
             /\ Len(outcome'[p].collections) = Cardinality(DOMAIN batch[p])
             /\ {outcome'[p].collections[i] : i \in 1..Len(outcome'[p].collections)}
                   = DOMAIN batch[p]]_vars

\* C15: items whose Title is null or undefined are dropped by the list
\* processor whatever the length of the captured array: no list value the
\* cleaner hands to the merge, and no persisted list array, holds one.
C15_UntitledItemsDropped ==
    /\ \A d \in DocNames, l \in ListNames :
          \A i \in 1..Len(ListItems(store, d, l)) : ~TitleMissing(ListItems(store, d, l)[i])
    /\ (lastMerge.t = "merge" /\ lastMerge.kind = "capturedLists")
       => \A l \in DOMAIN lastMerge.processed.o :
             IsArray(lastMerge.processed.o[l])
             => \A i \in 1..Len(lastMerge.processed.o[l].a) :
                   ~TitleMissing(lastMerge.processed.o[l].a[i])


(***************************************************************************)
(* Properties of the Dedup Key and of the functions that use it (SpecItem).*)
(***************************************************************************)
Paired == itemOut # Undefined /\ itemOut.op = "pair" /\ itemOut.value.t = "obj" /\ itemOut.other.t = "obj"

\* the fields the Dedup Key of an item is to be made of, with their values as text
KeyPairs(item) ==
    LET preferred == IF IncludesOleMiss(ToStr(Field(item, "originUrl")))
                     THEN {"Title", "EventDate", "Location", "Sports"}
                     ELSE {"Title", "Location", "Date", "Time"}
        found == {f \in preferred : Truthy(Field(item, f))}
        scalars == {f \in DOMAIN item.o \ {"uid"} : item.o[f].t = "str"}
    IN  {<<f, ToStr(item.o[f])>> : f \in IF found = {} THEN scalars ELSE found}

\* C16: the Dedup Key is made of Title with EventDate, Location, Sports for
\* the recognized source, and with Location, Date, Time otherwise, as far as
\* they are present, or of all non-null scalar fields but uid when none of
\* them is; it does not depend on uid; and two items are taken for the same
\* event by the deduplication functions exactly when their keys are equal.
C16_DedupKey ==
    Paired
    => LET a == itemOut.value
           b == itemOut.other
           same == createUniqueKeyForItem(a) = createUniqueKeyForItem(b)
       IN  /\ same <=> KeyPairs(a) = KeyPairs(b)
           /\ createUniqueKeyForItem(Obj(With(a.o, "uid", Str("another")))) = createUniqueKeyForItem(a)
           /\ itemOut.equivalent <=> same
           /\ Len(itemOut.fresh.a) = 0 <=> same
           /\ (~TitleMissing(a) /\ ~TitleMissing(b)) => (Len(itemOut.deduplicated.a) = 1 <=> same)

\* C16 witness: two normalized items with different uids and equal keys of
\* the recognized source's fields have been deduplicated to one.
C16_SameEventDifferentUid ==
    /\ Paired
    /\ itemIn.item = RawTucson18
    /\ itemIn.originUrl = UrlOleMiss
    /\ itemOut.value.o["uid"] # itemOut.other.o["uid"]
    /\ createUniqueKeyForItem(itemOut.value) = "Title:OleSports|EventDate:May 18|Location:Tucson|Sports:SB"
    /\ Len(itemOut.deduplicated.a) = 1


(***************************************************************************)
(* Properties of the document name (SpecItem).                             *)
(***************************************************************************)
\* C17: extractDomainIdentifier returns the last two labels of the URL's
\* host, the whole host when it has fewer than two labels, and the text
\* 'unknown' when the URL is missing, empty, 'unknown' or cannot be parsed.
C17_DomainIdentifier ==
    (itemOut # Undefined /\ itemOut.op = "domain")
    => LET url == itemOut.url
           parts == IF url.t = "str" THEN HostParts(url.s) ELSE <<>>
           n == Len(parts)
       IN  /\ itemOut.value.t = "str"
           /\ (url \in {Undefined, Null, Str(""), Str("unknown")} \/ n = 0)
                => itemOut.value.s = "unknown"
           /\ (url \notin {Undefined, Null, Str(""), Str("unknown")} /\ n = 1)
                => itemOut.value.s = parts[1]
           /\ (url \notin {Undefined, Null, Str(""), Str("unknown")} /\ n >= 2)
                => itemOut.value.s = parts[n - 1] \o "." \o parts[n]

\* C17 witness: a host of four labels has been cut to its last two.
C17_DeepHostCut ==
    /\ itemOut # Undefined
    /\ itemOut.op = "domain"
    /\ itemOut.url = Str(UrlDeep)
    /\ itemOut.value = Str("espn.com")


(***************************************************************************)
(* Properties of the event date parser (SpecItem).                         *)
(***************************************************************************)
\* the YYYY-MM-DD texts of the fixtures in calendar order
YmdOrder ==
    <<"2023-01-01", "2023-01-03", "2025-05-18", "2025-05-24", "2026-01-01", "2026-01-02",
      "2026-05-18", "2026-06-11", "2026-06-13", "2026-06-19", "2026-06-20", "2026-12-30">>

YmdRank(d) == CHOOSE i \in 1..Len(YmdOrder) : YmdOrder[i] = d

\* the texts that name a range of days
IsRangeText(s) ==
    s \in {"Jan 1-3, 2023", "Jun 11(Wed)-Jun 13(Fri)", "Jun 19 (Thu) - Jun 20 (Fri)",
           "Dec 30(Tue)-Jan 2(Fri)"}

\* C18: for a text in a supported format parseEventDate yields startDate
\* and endDate in YYYY-MM-DD form with startDate <= endDate, and endDate
\* equal to startDate when the text names no range.
C18_ParsedDatesOrdered ==
    (itemOut # Undefined /\ itemOut.op = "dates" /\ itemOut.value # Null)
    => /\ IsYMD(itemOut.value.startDate)
       /\ IsYMD(itemOut.value.endDate)
       /\ YmdRank(itemOut.value.startDate) <= YmdRank(itemOut.value.endDate)
       /\ ~IsRangeText(itemOut.input) => itemOut.value.endDate = itemOut.value.startDate


(***************************************************************************)
(* Properties of the Date of a normalized item (SpecItem).                 *)
(***************************************************************************)
\* the raw item carries a Date that is a YYYY-MM-DD text
CanonicalDateIn ==
    /\ itemOut # Undefined
    /\ itemOut.op = "item"
    /\ itemOut.value.t = "obj"
    /\ Field(itemIn.item, "Date").t = "str"
    /\ IsYMD(Field(itemIn.item, "Date").s)

\* the site-specific step applies to the raw item and finds a header date
HeaderDateOverlaid ==
    /\ IsOleMissSource(extractDomainIdentifier(itemIn.originUrl), itemIn.originUrl)
    /\ Field(itemIn.item, "DetailSrc").t = "str"
    /\ IncludesMarker(Field(itemIn.item, "DetailSrc").s)
    /\ Truthy(extractHeaderGameDate(Field(itemIn.item, "DetailSrc").s))

\* a normalized item, normalized again, has the Date it had
DateStable ==
    (itemOut # Undefined /\ itemOut.op = "again" /\ itemOut.value.t = "obj")
    => Field(itemOut.value, "Date") = Field(itemOut.first, "Date")

EnrichedFrom(detailSrc) ==
    /\ Normalized
    /\ RawIsObject
    /\ IsOleMissSource(extractDomainIdentifier(itemIn.originUrl), itemIn.originUrl)
    /\ Field(itemIn.item, "DetailSrc") = Str(detailSrc)

\* the fields the enrichment writes
EnrichedFields == {"Score", "Time", "EventDate", "EventEndDate", "Date"}

\* the raw item without its DetailSrc, normalized
NormalizedWithoutDetailSrc ==
    Normalize(Obj(Restrict(itemIn.item.o, DOMAIN itemIn.item.o \ {"DetailSrc"})),
              itemIn.key, itemIn.index, itemIn.originUrl, itemIn.clock)

\* C20: the enrichment never raises.  A raw object with a DetailSrc comes
\* out of the normalizer as an item whenever it does without; a header date that
\* cannot be parsed is kept verbatim in Date without an EventEndDate; a
\* DetailSrc without any date or score adds no field; an error raised inside
\* the enrichment leaves the item with the fields written so far;
\* parseEventDate and extractScore answer null for texts without a pattern.
C20_EnrichmentNeverRaises ==
    /\ (Normalized /\ RawIsObject)
         => (itemOut.value = Thrown <=> NormalizedWithoutDetailSrc = Thrown)
    /\ EnrichedFrom(HtmlTbd)
         => /\ Field(itemOut.value, "Date") = Str("TBD")
            /\ "EventEndDate" \notin DOMAIN itemOut.value.o
    /\ (EnrichedFrom(HtmlBare) \/ EnrichedFrom(HtmlPlain))
         => \A f \in EnrichedFields : f \in DOMAIN itemOut.value.o => f \in DOMAIN itemIn.item.o
    /\ (EnrichedFrom(HtmlTimed) /\ Field(itemIn.item, "EventDate") = Str("2025-05-18T18:30:00Z"))
         => /\ Field(itemOut.value, "EventDate").t = "obj"
            /\ Field(itemOut.value, "Time") = Str("6:00 PM")
            /\ Field(itemOut.value, "Date") = Str("2026-05-18")
    /\ (itemOut # Undefined /\ itemOut.op = "dates")
         => /\ itemOut.value = Null \/ itemOut.value.t = "dates"
            /\ itemOut.input \in {"", "TBD"} => itemOut.value = Null
    /\ (itemOut # Undefined /\ itemOut.op = "score")
         => /\ itemOut.value = Null \/ itemOut.value.t = "str"
            /\ itemOut.input \in {"", HtmlPlain, HtmlBare, HtmlTbd} => itemOut.value = Null

\* C20 witness: the enrichment of an item whose EventDate is no text has
\* raised a TypeError after Date and Time were written; the item came out
\* with them and with its Logo as captured.
C20_ErrorInsideEnrichmentCaught ==
    /\ EnrichedFrom(HtmlTimed)
    /\ itemIn.item = RawDetailTimed
    /\ itemOut.value.t = "obj"
    /\ Field(itemOut.value, "Date") = Str("2026-05-18")
    /\ Field(itemOut.value, "Logo") = Str(LogoCrop)


(***************************************************************************)
(* Properties of the cached route (SpecCache).                             *)
(***************************************************************************)
\* the step is a GET request for the URL
GetRequestStep(url) ==
    /\ middleware'.requests = middleware.requests + 1
    /\ middleware'.served.method = "GET"
    /\ middleware'.served.url = url

\* C21: once a GET request for a URL has stored its response, a later GET
\* request for the same URL within the TTL is answered from the cache and
\* the route handler does not run; after the TTL the handler runs again.
C21_ServedFromCacheUntilExpiry ==
    [][\A url \in RouteUrls :
          GetRequestStep(url)
          => IF middleware.sets[url] # 0 /\ middleware.sets[url] >= DateNow(now)
             THEN /\ middleware'.served.hit
                  /\ middleware'.runs[url] = middleware.runs[url]
             ELSE middleware'.runs[url] = middleware.runs[url] + 1]_vars


(***************************************************************************)
(* Properties of the List/Array Processor (SpecItem).                      *)
(***************************************************************************)
\* processArrayField has run on a list whose items all normalize
ListProcessed ==
    /\ itemOut # Undefined
    /\ itemOut.op = "list"
    /\ itemOut.deduplicated # Thrown

KeySet(items) == {createUniqueKeyForItem(items[i]) : i \in 1..Len(items)}

\* the items of the sequence whose Dedup Key is not in the set, in order
NotIn(items, keys) ==
    Pick(items, {i \in 1..Len(items) : createUniqueKeyForItem(items[i]) \notin keys})

\* C22: processArrayField returns [] for an empty deduplicated list, the
\* deduplicated list when nothing is persisted, the existing array when its
\* Dedup-Key set equals that of the new list, and otherwise the existing
\* array followed by the new items whose Dedup Key it does not hold.
C22_ResultByCase ==
    ListProcessed
    => LET new == itemOut.deduplicated.a
           old == itemOut.existing
       IN  itemOut.value =
             IF Len(new) = 0 THEN Arr(<<>>)
             ELSE IF old = Undefined THEN Arr(new)
             ELSE IF KeySet(old.a) = KeySet(new) THEN old
             ELSE Arr(old.a \o NotIn(new, KeySet(old.a)))

\* C23: the no-op branch is taken exactly when the Dedup-Key sets of the
\* new and of the existing array are equal, so that a new item whose key is
\* not persisted is never discarded.
C23_NoOpOnlyOnEqualKeySets ==
    (ListProcessed /\ itemOut.existing # Undefined /\ Len(itemOut.deduplicated.a) > 0)
    => /\ areArraysEquivalent(itemOut.deduplicated.a, itemOut.existing.a)
            <=> KeySet(itemOut.deduplicated.a) = KeySet(itemOut.existing.a)
       /\ KeySet(itemOut.deduplicated.a) \subseteq KeySet(itemOut.value.a)


\* the positions of the items among which a key's first occurrence is kept
FirstOf(items, candidates, key) ==
    CHOOSE i \in candidates :
        /\ createUniqueKeyForItem(items[i]) = key
        /\ \A j \in candidates : createUniqueKeyForItem(items[j]) = key => i <= j

\* d is p with some elements left out
RECURSIVE IsSubsequence(_, _)
IsSubsequence(d, p) ==
    IF Len(d) = 0 THEN TRUE
    ELSE IF Len(p) = 0 THEN FALSE
    ELSE IF Head(d) = Head(p) THEN IsSubsequence(Tail(d), Tail(p))
    ELSE IsSubsequence(d, Tail(p))

\* the result is a subsequence of the input with pairwise distinct keys,
\* each item of it the first of the candidates with its key
KeepsFirst(d, p, candidates) ==
    /\ IsSubsequence(d, p)
    /\ \A k, l \in 1..Len(d) :
          createUniqueKeyForItem(d[k]) = createUniqueKeyForItem(d[l]) => k = l
    /\ \A k \in 1..Len(d) :
          /\ \E i \in candidates : createUniqueKeyForItem(p[i]) = createUniqueKeyForItem(d[k])
          /\ d[k] = p[FirstOf(p, candidates, createUniqueKeyForItem(d[k]))]

\* the positions that pass the Title filter, which lists of one element skip
Titled(p) == IF Len(p) <= 1 THEN 1..Len(p) ELSE {i \in 1..Len(p) : ~TitleMissing(p[i])}

\* C24 as stated: deduplicateItems returns a subsequence of its input with
\* pairwise distinct Dedup Keys in which the item kept for a key is the
\* first item of the input with that key.
C24_FirstOccurrenceKept ==
    ListProcessed
    => KeepsFirst(itemOut.deduplicated.a, itemOut.processed.a, 1..Len(itemOut.processed.a))

\* C24 amended: deduplicateItems returns a subsequence of its input with
\* pairwise distinct Dedup Keys in which the item kept for a key is the
\* first item with that key among the items that pass the Title filter;
\* every later such item and every item the filter rejects is dropped.
C24_FirstTitledOccurrenceKept ==
    ListProcessed
    => /\ KeepsFirst(itemOut.deduplicated.a, itemOut.processed.a, Titled(itemOut.processed.a))
       /\ \A i \in Titled(itemOut.processed.a) :
             createUniqueKeyForItem(itemOut.processed.a[i]) \in KeySet(itemOut.deduplicated.a)

\* C24 witness: of two items with one Dedup Key and different uids the
\* first has been kept and the second dropped.
C24_LaterDuplicateDropped ==
    /\ ListProcessed
    /\ Len(itemOut.processed.a) = 2
    /\ ~TitleMissing(itemOut.processed.a[1])
    /\ createUniqueKeyForItem(itemOut.processed.a[1]) = createUniqueKeyForItem(itemOut.processed.a[2])
    /\ itemOut.processed.a[1] # itemOut.processed.a[2]
    /\ itemOut.deduplicated.a = <<itemOut.processed.a[1]>>


(***************************************************************************)
(* Properties of overlapping deliveries (SpecConcurrent), continued        *)
(***************************************************************************)

\* C25: of two deliveries with different payloads that overlap on the one
\* service instance, each hands to its store functions, and so stages under
\* its own domain identifier, only captures of its own payload: the capture
\* a suspended delivery is storing is the capture of that kind in its own
\* request body, never one read from the task the other delivery has set.
C25_StagesOwnPayloadOnly ==
    \A p \in Procs :
        pc[p] \in {"capturedTexts", "capturedScreenshots", "capturedLists"}
        => arg[p] = Field(Field(payload[p], "task"), pc[p])


(***************************************************************************)
(* Properties of one delivery's store accesses (Spec)                      *)
(***************************************************************************)

\* the request body carries a non-empty capture of the kind
Carries(body, kind) ==
    /\ kind \in DOMAIN Field(body, "task").o
    /\ DOMAIN Entries(Field(body, "task").o[kind]) # {}

\* the delivery has returned from the store function of the i-th kind
Returned(p, i) == pc[p] = "commit" \/ (pc[p] # "idle" /\ KindIndex(pc[p]) > i)

\* the first input parameter value of the request body, if it has one
FirstParameter(body) ==
    LET t == Field(body, "task").o
    IN  IF "inputParameters" \in DOMAIN t /\ DOMAIN Entries(t["inputParameters"]) # {}
        THEN LET e == Entries(t["inputParameters"]) IN e[CHOOSE k \in DOMAIN e : TRUE]
        ELSE Undefined

\* C26: a capture kind that is absent or empty causes no store read and no
\* staged write, and the commit leaves its persisted document unchanged;
\* each present non-empty kind causes exactly one read and one staged write,
\* to its own collection, which the commit lands under the domain identifier
\* derived from the first input parameter value.
C26_OneReadOneWritePerPresentKind ==
    [][\A p \in Procs :
          pc[p] # "idle"
          => /\ FirstParameter(payload[p]) # Undefined
                => docName[p] = extractDomainIdentifier(FirstParameter(payload[p]).s)
             /\ \A i \in 1..Len(Kinds) :
                   LET c == CollectionOf(Kinds[i])
                       done == Carries(payload[p], Kinds[i]) /\ Returned(p, i)
                   IN  /\ reads[p][c] = IF done THEN 1 ELSE 0
                       /\ c \in DOMAIN batch[p] <=> done
                       /\ (pc'[p] = "idle" /\ result'[p] = "ok")
                          => store'[c] = IF done THEN [store[c] EXCEPT ![docName[p]] = batch[p][c]]
                                         ELSE store[c]]_vars

\* C26 witness: a delivery with empty text and screenshot captures and a
\* list capture stands before its commit with one read and one staged write.
C26_EmptyKindsSkipped ==
    \E p \in Procs :
        /\ pc[p] = "commit"
        /\ "capturedTexts" \in DOMAIN Field(payload[p], "task").o
        /\ ~Carries(payload[p], "capturedTexts")
        /\ Carries(payload[p], "capturedLists")
        /\ reads[p] = [c \in Collections |-> IF c = "captured_lists" THEN 1 ELSE 0]
        /\ DOMAIN batch[p] = {"captured_lists"}


\* C27: a task whose input parameters are absent, missing or empty, is
\* Malformed Input: the delivery is refused with a client-class error before
\* any store access, so it has read nothing and staged nothing.
C27_AbsentParametersNoStoreAccess ==
    \A p \in Procs :
        (pc[p] # "idle" /\ FirstParameter(payload[p]) = Undefined)
        => /\ reads[p] = NoReads
           /\ DOMAIN batch[p] = {}


(***************************************************************************)
(* Properties of the site-specific enrichment (SpecItem), continued        *)
(***************************************************************************)
\* the item processArrayItem returns when the site-specific step is left out
WithoutEnrichment(item, processedItem, key, index, url, doc, clock) ==
    IF processedItem = Thrown \/ processedItem.t \in {"null", "undefined"} THEN Thrown
    ELSE WithImageUrl(item,
            WithParsedDate(CopyAllowed(processedItem, BaseLabel(key, index, url, clock), doc, url)))

ItemWithoutEnrichment ==
    WithoutEnrichment(convertToFirestoreFormat(itemIn.item),
                      cleanDataFields(convertToFirestoreFormat(itemIn.item), Null, itemIn.originUrl,
                                      extractDomainIdentifier(itemIn.originUrl), itemIn.clock),
                      itemIn.key, itemIn.index, itemIn.originUrl,
                      extractDomainIdentifier(itemIn.originUrl), itemIn.clock)

\* the raw item's DetailSrc is a string that contains the marker
MarkedDetailSrc ==
    /\ Field(itemIn.item, "DetailSrc").t = "str"
    /\ Field(itemIn.item, "DetailSrc").s
         \in {HtmlBare, HtmlSimple, HtmlRange, HtmlTimed, HtmlTbd, HtmlScored, HtmlGolf}

\* C28 as stated: the enricher changes an item only when the domain
\* identifier equals the recognized source and the raw item's DetailSrc is
\* a string containing the marker; in every other case the item comes back
\* with all its fields, Logo included, unchanged.
C28_EnrichedOnlyByDomainIdentifier ==
    (Normalized /\ ~(extractDomainIdentifier(itemIn.originUrl) = "olemisssports.com" /\ MarkedDetailSrc))
    => itemOut.value = ItemWithoutEnrichment

\* C28 amended: the enricher changes an item only when the source is the
\* recognized one - the domain identifier equals it or the origin URL
\* contains its host name - and the raw item's DetailSrc is a string
\* containing the marker; in every other case the item comes back with all
\* its fields, Logo included, unchanged.
C28_EnrichedOnlyOnRecognizedSource ==
    (Normalized
     /\ ~(/\ \/ extractDomainIdentifier(itemIn.originUrl) = "olemisssports.com"
             \/ itemIn.originUrl \in {UrlOleMiss, UrlEspnRef}
          /\ MarkedDetailSrc))
    => itemOut.value = ItemWithoutEnrichment

\* C28 witness: an item of the recognized source whose DetailSrc lacks the
\* marker has come out with its 80x80 Logo as captured.
C28_UnmarkedItemKeepsLogo ==
    /\ Normalized
    /\ itemIn.item = RawPlainCrop
    /\ itemIn.originUrl = UrlOleMiss
    /\ Field(itemOut.value, "Logo") = Str(LogoCrop)
    /\ itemOut.value = ItemWithoutEnrichment


\* C29: for an item of the recognized source whose DetailSrc contains a
\* score element, ingestion sets Score from it - for golf events (WGOLF,
\* MGOLF) from the postscore element, for all other sports from the
\* team-score element; when no pattern matches, the enrichment leaves Score
\* as it was.
C29_ScoreSetFromDetailSrc ==
    (/\ Normalized
     /\ RawIsObject
     /\ extractDomainIdentifier(itemIn.originUrl) = "olemisssports.com"
     /\ MarkedDetailSrc)
    => LET score == extractScore(Field(itemIn.item, "DetailSrc").s,
                                 SportType(Field(itemIn.item, "Sports")))
       IN  Field(itemOut.value, "Score") = IF score # Null THEN score
                                           ELSE Field(itemIn.item, "Score")


====
